---- MODULE Spec2Model ----
(***************************************************************************)
(* QazaqLit: the data aggregation core of src/index.js (loadAllData and    *)
(* the aggregators it calls) and the decade aggregation of                 *)
(* src/components/TemporalTrends.js.                                       *)
(*                                                                         *)
(* Numbers.  The program computes with JavaScript numbers.  The model      *)
(* computes with exact rationals <<n, d>> (d > 0, lowest terms); 0/0 is    *)
(* NaN, written <<0, 0>>, and x/0 for x # 0 is +-Infinity, <<+-1, 0>>.     *)
(* Rounding of binary floating point is not modelled.                      *)
(*                                                                         *)
(* Objects.  A parsed CSV row is a function from field names to values; a  *)
(* field the row lacks is absent from the function's domain (JavaScript    *)
(* undefined).  Strings of the data (Author, Book Title, the object keys    *)
(* made of a year) are sequences of characters; the empty string is <<>>.  *)
(***************************************************************************)
EXTENDS Integers, Sequences, FiniteSets, TLC

----------------------------------------------------------------------------
(* Bounds of the model *)

\* longest document table drawn by Init
MaxDocs == 3
\* largest topN drawn by Init besides the default
MaxTopN == 2
\* longest tail of the tables longer than the sample
MaxTail == 2

----------------------------------------------------------------------------
(* Program constants *)

\* for (let j = 1; j <= 13; j++)
NumTopics == 13
\* Math.min(100, documentTopics.length)
SampleLimit == 100
\* getTopAuthors = (documentTopics, topN = 20); loadAllData passes 20
DefaultTopN == 20

----------------------------------------------------------------------------
(* JavaScript numbers as exact rationals *)

Abs(n) == IF n < 0 THEN 0 - n ELSE n

Sign(n) == IF n < 0 THEN 0 - 1 ELSE IF n > 0 THEN 1 ELSE 0

RECURSIVE GCD(_, _)
GCD(a, b) == IF b = 0 THEN a ELSE GCD(b, a % b)

NaN == <<0, 0>>

Zero == <<0, 1>>

One == <<1, 1>>

IsFinite(x) == x[2] # 0

IsNaN(x) == x = NaN

\* n / d in lowest terms, d > 0
Rat(n, d) == LET g == GCD(Abs(n), d) IN <<n \div g, d \div g>>

FromInt(n) == <<n, 1>>

\* x + y
RAdd(x, y) ==
    IF IsFinite(x) /\ IsFinite(y)
        THEN LET g == GCD(x[2], y[2])
             IN  Rat(x[1] * (y[2] \div g) + y[1] * (x[2] \div g), (x[2] \div g) * y[2])
    ELSE IF IsFinite(x) THEN y
    ELSE IF IsFinite(y) \/ x = y THEN x
    ELSE NaN

\* x * y
RMul(x, y) ==
    IF IsFinite(x) /\ IsFinite(y)
        THEN LET g == GCD(Abs(x[1]), y[2])
                 h == GCD(Abs(y[1]), x[2])
             IN  <<(x[1] \div g) * (y[1] \div h), (x[2] \div h) * (y[2] \div g)>>
    ELSE <<Sign(x[1]) * Sign(y[1]), 0>>

\* x - y
RSub(x, y) == RAdd(x, <<0 - y[1], y[2]>>)

\* x / y
RDiv(x, y) ==
    IF IsFinite(x) /\ IsFinite(y) /\ y[1] # 0
        THEN RMul(x, <<Sign(y[1]) * y[2], Abs(y[1])>>)
    ELSE IF IsFinite(x) /\ IsFinite(y) THEN <<Sign(x[1]), 0>>
    ELSE IF IsFinite(x) THEN Zero
    ELSE IF IsFinite(y) /\ ~IsNaN(x) THEN <<x[1] * (IF y[1] < 0 THEN 0 - 1 ELSE 1), 0>>
    ELSE NaN

\* x < y (false when either is NaN)
RLess(x, y) ==
    IF IsNaN(x) \/ IsNaN(y) THEN FALSE
    ELSE IF IsFinite(x) /\ IsFinite(y) THEN x[1] * y[2] < y[1] * x[2]
    ELSE IF IsFinite(x) THEN y[1] > 0
    ELSE IF IsFinite(y) THEN x[1] < 0
    ELSE x[1] < y[1]

\* x > y
RGreater(x, y) == RLess(y, x)

\* the literal 0.95
Threshold == <<19, 20>>

----------------------------------------------------------------------------
(* Strings and object keys *)

WhiteSpace == {" ", "\t"}

\* String.prototype.trim
RECURSIVE TrimStart(_)
TrimStart(s) ==
    IF s # <<>> /\ Head(s) \in WhiteSpace THEN TrimStart(Tail(s)) ELSE s

RECURSIVE TrimEnd(_)
TrimEnd(s) ==
    IF s # <<>> /\ s[Len(s)] \in WhiteSpace THEN TrimEnd(SubSeq(s, 1, Len(s) - 1)) ELSE s

Trim(s) == TrimEnd(TrimStart(s))

\* the property key a non-negative integer turns into: its decimal digits
RECURSIVE PropertyKey(_)
PropertyKey(n) == IF n < 10 THEN <<n>> ELSE Append(PropertyKey(n \div 10), n % 10)

\* parseInt of a string of decimal digits
RECURSIVE ParseInt(_)
ParseInt(s) ==
    IF Len(s) = 1 THEN s[1] ELSE 10 * ParseInt(SubSeq(s, 1, Len(s) - 1)) + s[Len(s)]

\* the order of Array.prototype.sort without a comparator: by code units
RECURSIVE StringLess(_, _)
StringLess(s, t) ==
    IF t = <<>> THEN FALSE
    ELSE IF s = <<>> THEN TRUE
    ELSE IF Head(s) # Head(t) THEN Head(s) < Head(t)
    ELSE StringLess(Tail(s), Tail(t))

TopicKeys ==
    <<"Topic_1", "Topic_2", "Topic_3", "Topic_4", "Topic_5", "Topic_6", "Topic_7",
      "Topic_8", "Topic_9", "Topic_10", "Topic_11", "Topic_12", "Topic_13">>

\* `Topic_${i}`
TopicKey(i) == TopicKeys[i]

TopicKeySet == {TopicKey(i) : i \in 1..NumTopics}

\* obj[key] !== undefined
Has(obj, key) == key \in DOMAIN obj

\* f itself, with all its values computed at once
Eager(f) == f @@ <<>>

\* true of every value; asking it makes the value be computed here, not where it is used
Computed(x) == x = x

\* Array(13).fill(0).reduce((obj, _, i) => { obj[`Topic_${i + 1}`] = 0; ... }, {})
ZeroDistribution == Eager([t \in TopicKeySet |-> Zero])

----------------------------------------------------------------------------
(* The document table handed over by loadDocumentTopics *)

BookTitle == "Book Title"

Row(author, year, title, weights) == author @@ year @@ title @@ weights

NoField == <<>>

\* {Author: "A", Year: 1950, Topic_1: 0.6, Topic_2: 0.4}
ExampleFirstRow ==
    Row("Author" :> <<"A">>, "Year" :> 1950, NoField,
        [Topic_1 |-> <<3, 5>>, Topic_2 |-> <<2, 5>>])

\* {Author: "A", Year: 1950, Topic_1: 0.3, Topic_2: 0.3}
ExampleSecondRow ==
    Row("Author" :> <<"A">>, "Year" :> 1950, NoField,
        [Topic_1 |-> <<3, 10>>, Topic_2 |-> <<3, 10>>])

\* a row whose weights sum to 0.9
NinetyRow ==
    Row("Author" :> <<"B">>, "Year" :> 1955, BookTitle :> <<"t", "1">>,
        [Topic_2 |-> <<9, 20>>, Topic_13 |-> <<9, 20>>])

\* the rows the document tables are made of: among them rows without Year, Author,
\* Book Title or weights, a year 0, a blank and a padded author, an empty title
Corpus ==
    { ExampleFirstRow,
      ExampleSecondRow,
      NinetyRow,
      Row("Author" :> <<" ", "A", " ">>, "Year" :> 1960, BookTitle :> <<"t", "1">>, NoField),
      Row("Author" :> <<"C">>, NoField, BookTitle :> <<>>,
          [Topic_1 |-> <<3, 5>>, Topic_2 |-> <<2, 5>>]),
      Row("Author" :> <<" ">>, "Year" :> 0, BookTitle :> <<"t", "1">>,
          [Topic_1 |-> Zero, Topic_3 |-> Zero]),
      Row(NoField, "Year" :> 1960, BookTitle :> <<"t", "2">>,
          [Topic_2 |-> <<9, 20>>, Topic_13 |-> <<9, 20>>]),
      Row("Author" :> <<"B">>, "Year" :> 995, BookTitle :> <<"t", "2">>,
          [Topic_3 |-> One]) }

RECURSIVE SeqsUpTo(_, _)
SeqsUpTo(S, n) ==
    IF n = 0 THEN {<<>>}
    ELSE LET shorter == SeqsUpTo(S, n - 1)
         IN  shorter \cup {Append(s, x) : s \in {t \in shorter : Len(t) = n - 1}, x \in S}

\* a row of the year 0 with no author and no weight, alone and after another row
BareYearZeroRow == Row(NoField, "Year" :> 0, BookTitle :> <<"t", "1">>, NoField)

EdgeTables == {<<BareYearZeroRow>>, <<ExampleFirstRow, BareYearZeroRow>>}

DocumentTables == SeqsUpTo(Corpus, MaxDocs) \cup EdgeTables

TopNs == (1..MaxTopN) \cup {DefaultTopN}

\* tables longer than the sample of the normalization check: k rows whose weights
\* sum to 1 and to 0.9 in turn, then a short tail
LongPrefix(k) == [i \in 1..k |-> IF i % 2 = 1 THEN ExampleFirstRow ELSE NinetyRow]

PrefixLengths == {0, SampleLimit - 1, SampleLimit}

LongTables == {LongPrefix(k) \o tail : k \in PrefixLengths, tail \in SeqsUpTo(Corpus, MaxTail)}

\* a row whose single weight is 1, and one whose single weight is 0.5
UnitRow == Row("Author" :> <<"A">>, "Year" :> 1950, NoField, [Topic_1 |-> One])

HalfRow == Row("Author" :> <<"A">>, "Year" :> 1950, NoField, [Topic_1 |-> <<1, 2>>])

\* the rows that follow: of another year and topic, without Year and Author, without
\* weights
TailRows ==
    { Row("Author" :> <<"B">>, "Year" :> 995, BookTitle :> <<"t", "2">>, [Topic_3 |-> One]),
      Row(NoField, NoField, BookTitle :> <<"t", "1">>,
          [Topic_2 |-> <<1, 2>>, Topic_3 |-> <<1, 2>>]),
      Row("Author" :> <<"C">>, "Year" :> 1960, NoField, NoField) }

\* tables of more documents than the sample: 99 or 100 equal rows, then a tail
SampleTables ==
    {[i \in 1..k |-> row] \o tail :
        k \in {SampleLimit - 1, SampleLimit}, row \in {UnitRow, HalfRow},
        tail \in SeqsUpTo(TailRows, MaxTail)}

----------------------------------------------------------------------------
(* aggregateBooksByYear *)

\* let docTotal = 0; for (i = 1..13) if (doc[topicKey] !== undefined) docTotal += doc[topicKey]
RECURSIVE DocTotalUpTo(_, _)
DocTotalUpTo(doc, i) ==
    IF i = 0 THEN Zero
    ELSE LET before == DocTotalUpTo(doc, i - 1)
         IN  IF Has(doc, TopicKey(i)) THEN RAdd(before, doc[TopicKey(i)]) ELSE before

DocTotal(doc) == DocTotalUpTo(doc, NumTopics)

(* A loop over the documents lo..hi is unfolded by halves: the passes over   *)
(* lo..mid, then the passes over mid+1..hi, in the order of the loop.       *)

\* what the passes i = lo..hi of the sampling loop add to sampleTotal
RECURSIVE SampleTotalOf(_, _, _)
SampleTotalOf(docs, lo, hi) ==
    IF lo > hi THEN Zero
    ELSE IF lo = hi THEN DocTotal(docs[lo])
    ELSE LET mid == (lo + hi) \div 2
         IN  RAdd(SampleTotalOf(docs, lo, mid), SampleTotalOf(docs, mid + 1, hi))

\* sampleTotal after the first n documents
SampleTotal(docs, n) == SampleTotalOf(docs, 1, n)

Min(a, b) == IF a < b THEN a ELSE b

\* !value, for a number or a string
FalsyNumber(obj, key) == ~Has(obj, key) \/ obj[key] = 0

NormalizedValueNeverDivided(needsNormalization, value, docTotal) == value

\* (needsNormalization && docTotal > 0) ? value / docTotal : value
NormalizedValue(needsNormalization, value, docTotal) ==
    IF needsNormalization /\ RGreater(docTotal, Zero) THEN RDiv(value, docTotal) ELSE value

ByYearNeedsNormalizationWholeTable(documentTopics) ==
    LET sampleSize == Len(documentTopics)
        avgTotal == RDiv(SampleTotal(documentTopics, sampleSize), FromInt(sampleSize))
    IN  RLess(avgTotal, Threshold)

\* the flag of aggregateBooksByYear
ByYearNeedsNormalization(documentTopics) ==
    LET sampleSize == Min(SampleLimit, Len(documentTopics))
        avgTotal == RDiv(SampleTotal(documentTopics, sampleSize), FromInt(sampleSize))
    IN  RLess(avgTotal, Threshold)

\* one pass of documentTopics.forEach over doc
ByYearVisit(booksByYear, doc, needsNormalization) ==
    IF FalsyNumber(doc, "Year") THEN booksByYear
    ELSE LET key == PropertyKey(doc["Year"])
             entry == IF key \in DOMAIN booksByYear THEN booksByYear[key]
                      ELSE [count |-> 0, topicDistribution |-> ZeroDistribution]
             docTotal == DocTotal(doc)
             added == Eager([t \in TopicKeySet |->
                         IF Has(doc, t)
                             THEN RAdd(entry.topicDistribution[t],
                                       NormalizedValue(needsNormalization, doc[t], docTotal))
                         ELSE entry.topicDistribution[t]])
         IN  Eager([k \in DOMAIN booksByYear \cup {key} |->
                 IF k = key THEN [count |-> entry.count + 1, topicDistribution |-> added]
                 ELSE booksByYear[k]])

\* booksByYear after the passes lo..hi of documentTopics.forEach
RECURSIVE ByYearPasses(_, _, _, _, _)
ByYearPasses(booksByYear, docs, lo, hi, needsNormalization) ==
    IF lo > hi THEN booksByYear
    ELSE IF lo = hi THEN ByYearVisit(booksByYear, docs[lo], needsNormalization)
    ELSE LET mid == (lo + hi) \div 2
             half == ByYearPasses(booksByYear, docs, lo, mid, needsNormalization)
         IN  IF Computed(half) THEN ByYearPasses(half, docs, mid + 1, hi, needsNormalization)
             ELSE half

ByYearSums(docs, n, needsNormalization) == ByYearPasses(<<>>, docs, 1, n, needsNormalization)

ByYearAverageNotDivided(booksByYear) == booksByYear

\* Object.keys(booksByYear).forEach(year => ... topicDistribution[topic] /= count)
ByYearAverage(booksByYear) ==
    Eager([k \in DOMAIN booksByYear |->
        IF booksByYear[k].count > 0
            THEN [count |-> booksByYear[k].count,
                  topicDistribution |->
                      Eager([t \in TopicKeySet |->
                          RDiv(booksByYear[k].topicDistribution[t],
                               FromInt(booksByYear[k].count))])]
        ELSE booksByYear[k]])

aggregateBooksByYear(documentTopics) ==
    ByYearAverage(ByYearSums(documentTopics, Len(documentTopics),
                             ByYearNeedsNormalization(documentTopics)))

----------------------------------------------------------------------------
(* getTopAuthors *)

\* !value, for a string
FalsyString(obj, key) == ~Has(obj, key) \/ obj[key] = <<>>

\* the flag of getTopAuthors
TopAuthorsNeedsNormalization(documentTopics) ==
    LET sampleSize == Min(SampleLimit, Len(documentTopics))
        avgTotal == RDiv(SampleTotal(documentTopics, sampleSize), FromInt(sampleSize))
    IN  RLess(avgTotal, Threshold)

\* the position of the entry of authorMap whose key is name, 0 when there is none
AuthorIndex(authorMap, name) ==
    IF \E i \in 1..Len(authorMap) : authorMap[i].name = name
        THEN CHOOSE i \in 1..Len(authorMap) : authorMap[i].name = name
    ELSE 0

\* one pass of documentTopics.forEach over doc; authorMap is a Map, kept in insertion order
TopAuthorsVisit(authorMap, doc, needsNormalization) ==
    IF FalsyString(doc, "Author") \/ Trim(doc["Author"]) = <<>> THEN authorMap
    ELSE LET authorName == Trim(doc["Author"])
             at == AuthorIndex(authorMap, authorName)
             authorData == IF at # 0 THEN authorMap[at]
                           ELSE [name |-> authorName, count |-> 0, books |-> {},
                                 topicSums |-> ZeroDistribution]
             docTopicTotal == DocTotal(doc)
             updated ==
                 [name |-> authorData.name,
                  count |-> authorData.count + 1,
                  books |-> IF FalsyString(doc, BookTitle) THEN authorData.books
                            ELSE authorData.books \cup {doc[BookTitle]},
                  topicSums |->
                      Eager([t \in TopicKeySet |->
                          IF Has(doc, t)
                              THEN RAdd(authorData.topicSums[t],
                                        NormalizedValue(needsNormalization, doc[t], docTopicTotal))
                          ELSE authorData.topicSums[t]])]
         IN  IF at # 0 THEN [authorMap EXCEPT ![at] = updated]
             ELSE Append(authorMap, updated)

\* authorMap after the passes lo..hi of documentTopics.forEach
RECURSIVE TopAuthorsPasses(_, _, _, _, _)
TopAuthorsPasses(authorMap, docs, lo, hi, needsNormalization) ==
    IF lo > hi THEN authorMap
    ELSE IF lo = hi THEN TopAuthorsVisit(authorMap, docs[lo], needsNormalization)
    ELSE LET mid == (lo + hi) \div 2
             half == TopAuthorsPasses(authorMap, docs, lo, mid, needsNormalization)
         IN  IF Computed(half) THEN TopAuthorsPasses(half, docs, mid + 1, hi, needsNormalization)
             ELSE half

TopAuthorsMap(docs, n, needsNormalization) ==
    TopAuthorsPasses(<<>>, docs, 1, n, needsNormalization)

\* totalDist: Object.values(topicDistribution).forEach(val => totalDist += val)
RECURSIVE DistributionTotalUpTo(_, _)
DistributionTotalUpTo(dist, i) ==
    IF i = 0 THEN Zero ELSE RAdd(DistributionTotalUpTo(dist, i - 1), dist[TopicKey(i)])

\* the summary with bookCount taken from the document count
AuthorSummaryCountingDocuments(author) ==
    LET topicDistribution ==
            Eager([t \in TopicKeySet |->
                IF author.count > 0 THEN RDiv(author.topicSums[t], FromInt(author.count))
                ELSE Zero])
    IN  [name |-> author.name,
         count |-> author.count,
         bookCount |-> author.count,
         topicDistribution |-> topicDistribution,
         totalDistribution |-> DistributionTotalUpTo(topicDistribution, NumTopics)]

\* the object Array.from(authorMap.values()).map builds for one author
AuthorSummary(author) ==
    LET topicDistribution ==
            Eager([t \in TopicKeySet |->
                IF author.count > 0 THEN RDiv(author.topicSums[t], FromInt(author.count))
                ELSE Zero])
    IN  [name |-> author.name,
         count |-> author.count,
         bookCount |-> Cardinality(author.books),
         topicDistribution |-> topicDistribution,
         totalDistribution |-> DistributionTotalUpTo(topicDistribution, NumTopics)]

\* x put into the sorted sequence s behind every element that does not sort after it
RECURSIVE InsertByCount(_, _)
InsertByCount(s, x) ==
    IF s = <<>> THEN <<x>>
    ELSE IF x.count - Head(s).count > 0 THEN <<x>> \o s
    ELSE <<Head(s)>> \o InsertByCount(Tail(s), x)

SortByCountAscending(authors) ==
    LET RECURSIVE Ins(_, _)
        Ins(s, x) == IF s = <<>> THEN <<x>>
                     ELSE IF Head(s).count - x.count > 0 THEN <<x>> \o s
                     ELSE <<Head(s)>> \o Ins(Tail(s), x)
        RECURSIVE Go(_)
        Go(n) == IF n = 0 THEN <<>> ELSE Ins(Go(n - 1), authors[n])
    IN  Go(Len(authors))

SortByCountUnstable(authors) ==
    LET RECURSIVE Ins(_, _)
        Ins(s, x) == IF s = <<>> THEN <<x>>
                     ELSE IF x.count - Head(s).count >= 0 THEN <<x>> \o s
                     ELSE <<Head(s)>> \o Ins(Tail(s), x)
        RECURSIVE Go(_)
        Go(n) == IF n = 0 THEN <<>> ELSE Ins(Go(n - 1), authors[n])
    IN  Go(Len(authors))

\* authors.sort((a, b) => b.count - a.count): a stable sort (ECMAScript 2019)
SortByCount(authors) ==
    LET RECURSIVE Go(_)
        Go(n) == IF n = 0 THEN <<>> ELSE InsertByCount(Go(n - 1), authors[n])
    IN  Go(Len(authors))

\* array.slice(0, n)
Slice(array, n) == SubSeq(array, 1, Min(n, Len(array)))

getTopAuthors(documentTopics, n) ==
    LET authorMap == TopAuthorsMap(documentTopics, Len(documentTopics),
                                   TopAuthorsNeedsNormalization(documentTopics))
        authors == Eager([i \in 1..Len(authorMap) |-> AuthorSummary(authorMap[i])])
    IN  Slice(SortByCount(authors), n)

----------------------------------------------------------------------------
(* calculateTopicEvolutionByYear *)

EvolutionNeedsNormalizationAtMost(documentTopics) ==
    LET sampleSize == Min(SampleLimit, Len(documentTopics))
        avgTotal == RDiv(SampleTotal(documentTopics, sampleSize), FromInt(sampleSize))
    IN  ~RLess(Threshold, avgTotal)

\* the flag of calculateTopicEvolutionByYear
EvolutionNeedsNormalization(documentTopics) ==
    LET sampleSize == Min(SampleLimit, Len(documentTopics))
        avgTotal == RDiv(SampleTotal(documentTopics, sampleSize), FromInt(sampleSize))
    IN  RLess(avgTotal, Threshold)

\* one pass of documentTopics.forEach: the document is pushed onto its year
YearlyVisit(yearlyData, doc) ==
    IF FalsyNumber(doc, "Year") THEN yearlyData
    ELSE LET key == PropertyKey(doc["Year"])
             documents == IF key \in DOMAIN yearlyData THEN yearlyData[key] ELSE <<>>
         IN  Eager([k \in DOMAIN yearlyData \cup {key} |->
                 IF k = key THEN Append(documents, doc) ELSE yearlyData[k]])

\* yearlyData after the passes lo..hi of documentTopics.forEach
RECURSIVE YearlyPasses(_, _, _, _)
YearlyPasses(yearlyData, docs, lo, hi) ==
    IF lo > hi THEN yearlyData
    ELSE IF lo = hi THEN YearlyVisit(yearlyData, docs[lo])
    ELSE LET mid == (lo + hi) \div 2
             half == YearlyPasses(yearlyData, docs, lo, mid)
         IN  IF Computed(half) THEN YearlyPasses(half, docs, mid + 1, hi) ELSE half

\* yearlyData after documentTopics.forEach: key -> the documents of that year, in order
YearlyData(docs, n) == YearlyPasses(<<>>, docs, 1, n)

\* Object.keys(obj).sort(): the keys in the order of their code units
RECURSIVE SortedKeys(_)
SortedKeys(keys) ==
    IF keys = {} THEN <<>>
    ELSE LET first == CHOOSE k \in keys : \A other \in keys \ {k} : StringLess(k, other)
         IN  <<first>> \o SortedKeys(keys \ {first})

\* a pass that adds the weights as they are
EvolutionVisitAddingRawWeights(topicSums, doc, needsNormalization) ==
    Eager([t \in TopicKeySet |->
        IF Has(doc, t) THEN RAdd(topicSums[t], doc[t]) ELSE topicSums[t]])

\* one pass of yearDocs.forEach
EvolutionVisit(topicSums, doc, needsNormalization) ==
    LET docTotal == DocTotal(doc)
    IN  Eager([t \in TopicKeySet |->
            IF Has(doc, t)
                THEN RAdd(topicSums[t], NormalizedValue(needsNormalization, doc[t], docTotal))
            ELSE topicSums[t]])

\* topicSums after the passes lo..hi of yearDocs.forEach
RECURSIVE EvolutionPasses(_, _, _, _, _)
EvolutionPasses(topicSums, yearDocs, lo, hi, needsNormalization) ==
    IF lo > hi THEN topicSums
    ELSE IF lo = hi THEN EvolutionVisit(topicSums, yearDocs[lo], needsNormalization)
    ELSE LET mid == (lo + hi) \div 2
             half == EvolutionPasses(topicSums, yearDocs, lo, mid, needsNormalization)
         IN  IF Computed(half)
                 THEN EvolutionPasses(half, yearDocs, mid + 1, hi, needsNormalization)
             ELSE half

\* topicSums after yearDocs.forEach
EvolutionSums(yearDocs, n, needsNormalization) ==
    EvolutionPasses(ZeroDistribution, yearDocs, 1, n, needsNormalization)

calculateTopicEvolutionByYear(documentTopics) ==
    LET needsNormalization == EvolutionNeedsNormalization(documentTopics)
        yearlyData == YearlyData(documentTopics, Len(documentTopics))
        years == SortedKeys(DOMAIN yearlyData)
    IN  Eager([i \in 1..Len(years) |->
            LET yearDocs == yearlyData[years[i]]
                docCount == Len(yearDocs)
                topicSums == EvolutionSums(yearDocs, docCount, needsNormalization)
            IN  [year |-> ParseInt(years[i]),
                 documentCount |-> docCount,
                 topicDistribution |->
                     Eager([t \in TopicKeySet |-> RDiv(topicSums[t], FromInt(docCount))])]])

----------------------------------------------------------------------------
(* calculateTopicCorrelations *)

(* Math.sqrt of a rational need not be rational.  The reals the function     *)
(* computes with are kept as sign * sqrt(square): [sign, square].            *)

\* Math.sqrt(x)
Sqrt(x) ==
    IF IsNaN(x) \/ x[1] < 0 THEN [sign |-> 0, square |-> NaN]
    ELSE [sign |-> Sign(x[1]), square |-> x]

\* a * b
SurdTimes(a, b) == [sign |-> a.sign * b.sign, square |-> RMul(a.square, b.square)]

\* x / s, for a number x
OverSurd(x, s) ==
    IF IsNaN(x) \/ IsNaN(s.square) THEN [sign |-> 0, square |-> NaN]
    ELSE [sign |-> Sign(x[1]) * s.sign, square |-> RMul(x, RDiv(x, s.square))]

\* s > 0
SurdPositive(s) == s.sign > 0 /\ ~IsNaN(s.square)

\* the number 0
SurdZero == [sign |-> 0, square |-> Zero]

\* the flag of calculateTopicCorrelations
CorrelationsNeedsNormalization(documentTopics) ==
    LET sampleSize == Min(SampleLimit, Len(documentTopics))
        avgTotal == RDiv(SampleTotal(documentTopics, sampleSize), FromInt(sampleSize))
    IN  RLess(avgTotal, Threshold)

NormalizedValuesUnguarded(doc, needsNormalization) ==
    LET docTotal == DocTotal(doc)
    IN  Eager([i \in 1..NumTopics |->
            LET val == IF Has(doc, TopicKey(i)) THEN doc[TopicKey(i)] ELSE Zero
            IN  IF needsNormalization THEN RDiv(val, docTotal) ELSE val])

\* the array documentTopics.map builds for one document
NormalizedValues(doc, needsNormalization) ==
    LET docTotal == DocTotal(doc)
    IN  Eager([i \in 1..NumTopics |->
            LET val == IF Has(doc, TopicKey(i)) THEN doc[TopicKey(i)] ELSE Zero
            IN  NormalizedValue(needsNormalization, val, docTotal)])

\* the arrays of the documents of the sample only
NormalizedDocsOfSample(documentTopics) ==
    LET needsNormalization == CorrelationsNeedsNormalization(documentTopics)
    IN  Eager([d \in 1..Min(SampleLimit, Len(documentTopics)) |->
            NormalizedValues(documentTopics[d], needsNormalization)])

NormalizedDocs(documentTopics) ==
    LET needsNormalization == CorrelationsNeedsNormalization(documentTopics)
    IN  Eager([d \in 1..Len(documentTopics) |->
            NormalizedValues(documentTopics[d], needsNormalization)])

\* the sum of term[1] .. term[n]
RECURSIVE SumOfRange(_, _, _)
SumOfRange(term, lo, hi) ==
    IF lo > hi THEN Zero
    ELSE IF lo = hi THEN term[lo]
    ELSE RAdd(SumOfRange(term, lo, (lo + hi) \div 2),
              SumOfRange(term, (lo + hi) \div 2 + 1, hi))

SumUpTo(term, n) == SumOfRange(term, 1, n)

TopicMeans(normalizedDocs) ==
    LET docCount == Len(normalizedDocs)
    IN  Eager([i \in 1..NumTopics |->
            RDiv(SumUpTo([d \in 1..docCount |-> normalizedDocs[d][i]], docCount),
                 FromInt(docCount))])

\* normalizedValues[i] - topicMeans[i], for every document and topic
Deviations(normalizedDocs, topicMeans) ==
    Eager([d \in 1..Len(normalizedDocs) |->
        Eager([i \in 1..NumTopics |-> RSub(normalizedDocs[d][i], topicMeans[i])])])

\* the sums of the products of deviations, not divided by docCount
CovarianceMatrixNotAveraged(normalizedDocs, topicMeans) ==
    LET docCount == Len(normalizedDocs)
        dev == Deviations(normalizedDocs, topicMeans)
    IN  Eager([i \in 1..NumTopics |->
            Eager([j \in 1..NumTopics |->
                SumUpTo([d \in 1..docCount |-> RMul(dev[d][i], dev[d][j])], docCount)])])

CovarianceMatrix(normalizedDocs, topicMeans) ==
    LET docCount == Len(normalizedDocs)
        dev == Deviations(normalizedDocs, topicMeans)
    IN  Eager([i \in 1..NumTopics |->
            Eager([j \in 1..NumTopics |->
                RDiv(SumUpTo([d \in 1..docCount |-> RMul(dev[d][i], dev[d][j])], docCount),
                     FromInt(docCount))])])

TopicStdDevs(normalizedDocs, topicMeans) ==
    LET docCount == Len(normalizedDocs)
        dev == Deviations(normalizedDocs, topicMeans)
    IN  Eager([i \in 1..NumTopics |->
            Sqrt(RDiv(SumUpTo([d \in 1..docCount |-> RMul(dev[d][i], dev[d][i])], docCount),
                      FromInt(docCount)))])

\* the matrix with every covariance divided by the variance of its row topic
calculateTopicCorrelationsByRowVariance(documentTopics) ==
    LET normalizedDocs == NormalizedDocs(documentTopics)
        topicMeans == TopicMeans(normalizedDocs)
        covarianceMatrix == CovarianceMatrix(normalizedDocs, topicMeans)
        topicStdDevs == TopicStdDevs(normalizedDocs, topicMeans)
    IN  Eager([i \in 1..NumTopics |->
            Eager([j \in 1..NumTopics |->
                IF SurdPositive(topicStdDevs[i]) /\ SurdPositive(topicStdDevs[j])
                    THEN OverSurd(covarianceMatrix[i][j],
                                  SurdTimes(topicStdDevs[i], topicStdDevs[i]))
                ELSE SurdZero])])

\* the matrix without the test  topicStdDevs[i] > 0 && topicStdDevs[j] > 0
calculateTopicCorrelationsUnguarded(documentTopics) ==
    LET normalizedDocs == NormalizedDocs(documentTopics)
        topicMeans == TopicMeans(normalizedDocs)
        covarianceMatrix == CovarianceMatrix(normalizedDocs, topicMeans)
        topicStdDevs == TopicStdDevs(normalizedDocs, topicMeans)
    IN  Eager([i \in 1..NumTopics |->
            Eager([j \in 1..NumTopics |->
                OverSurd(covarianceMatrix[i][j],
                         SurdTimes(topicStdDevs[i], topicStdDevs[j]))])])

calculateTopicCorrelations(documentTopics) ==
    LET normalizedDocs == NormalizedDocs(documentTopics)
        topicMeans == TopicMeans(normalizedDocs)
        covarianceMatrix == CovarianceMatrix(normalizedDocs, topicMeans)
        topicStdDevs == TopicStdDevs(normalizedDocs, topicMeans)
    IN  Eager([i \in 1..NumTopics |->
            Eager([j \in 1..NumTopics |->
                IF SurdPositive(topicStdDevs[i]) /\ SurdPositive(topicStdDevs[j])
                    THEN OverSurd(covarianceMatrix[i][j],
                                  SurdTimes(topicStdDevs[i], topicStdDevs[j]))
                ELSE SurdZero])])

----------------------------------------------------------------------------
(* prepareTopicKeywords and enhanceTopicKeywords *)

TopicNumber == "Topic Number"

TopicName == "Topic Name"

\* `Topic ${n}`
TopicLabelText(n) == <<"Topic ", n>>

\* array.find(test): the first element that passes, as a sequence of 0 or 1 elements
FirstWhere(array, Test(_)) ==
    IF \E i \in 1..Len(array) : Test(array[i])
        THEN <<array[CHOOSE i \in 1..Len(array) :
                        Test(array[i]) /\ \A k \in 1..(i - 1) : ~Test(array[k])]>>
    ELSE <<>>

\* keywordRow.filter(Boolean)
RECURSIVE FilterBoolean(_)
FilterBoolean(array) ==
    IF array = <<>> THEN <<>>
    ELSE IF Head(array) # "" THEN <<Head(array)>> \o FilterBoolean(Tail(array))
    ELSE FilterBoolean(Tail(array))

\* array.includes(x)
Includes(array, x) == \E i \in 1..Len(array) : array[i] = x

prepareTopicKeywords(nmfTopics, topicLabels) ==
    [i \in 1..(Len(nmfTopics) - 1) |->
        LET keywordRow == nmfTopics[i + 1]
            IsLabel(label) == Has(label, TopicNumber) /\ label[TopicNumber] = TopicLabelText(i)
            topicLabel == FirstWhere(topicLabels, IsLabel)
        IN  [id |-> i,
             name |-> IF topicLabel # <<>> THEN topicLabel[1][TopicName]
                      ELSE TopicLabelText(i),
             keywords |-> FilterBoolean(keywordRow)]]

\* a pass that opens a topic for a word whose topic id matches none
EnhanceVisitOpeningTopics(enhancedKeywords, wordItem) ==
    IF wordItem.topic_id = 0 \/ wordItem.word = "" THEN enhancedKeywords
    ELSE IF \E i \in 1..Len(enhancedKeywords) : enhancedKeywords[i].id = wordItem.topic_id
        THEN LET at == CHOOSE i \in 1..Len(enhancedKeywords) :
                           /\ enhancedKeywords[i].id = wordItem.topic_id
                           /\ \A k \in 1..(i - 1) : enhancedKeywords[k].id # wordItem.topic_id
             IN  IF Includes(enhancedKeywords[at].keywords, wordItem.word)
                     THEN enhancedKeywords
                 ELSE [enhancedKeywords EXCEPT ![at].keywords = Append(@, wordItem.word)]
    ELSE Append(enhancedKeywords,
                [id |-> wordItem.topic_id, name |-> TopicLabelText(wordItem.topic_id),
                 keywords |-> <<wordItem.word>>])

\* a pass that adds the word without looking for it among the keywords
EnhanceVisitAddingAgain(enhancedKeywords, wordItem) ==
    IF wordItem.topic_id = 0 \/ wordItem.word = "" THEN enhancedKeywords
    ELSE IF ~\E i \in 1..Len(enhancedKeywords) : enhancedKeywords[i].id = wordItem.topic_id
        THEN enhancedKeywords
    ELSE LET at == CHOOSE i \in 1..Len(enhancedKeywords) :
                       /\ enhancedKeywords[i].id = wordItem.topic_id
                       /\ \A k \in 1..(i - 1) : enhancedKeywords[k].id # wordItem.topic_id
         IN  [enhancedKeywords EXCEPT ![at].keywords = Append(@, wordItem.word)]

\* one pass of expandedWordlist.forEach over wordItem
EnhanceVisit(enhancedKeywords, wordItem) ==
    IF wordItem.topic_id = 0 \/ wordItem.word = "" THEN enhancedKeywords
    ELSE LET IsTopic(t) == t.id = wordItem.topic_id
         IN  IF ~\E i \in 1..Len(enhancedKeywords) : IsTopic(enhancedKeywords[i])
                 THEN enhancedKeywords
             ELSE LET at == CHOOSE i \in 1..Len(enhancedKeywords) :
                                /\ IsTopic(enhancedKeywords[i])
                                /\ \A k \in 1..(i - 1) : ~IsTopic(enhancedKeywords[k])
                  IN  IF Includes(enhancedKeywords[at].keywords, wordItem.word)
                          THEN enhancedKeywords
                      ELSE [enhancedKeywords EXCEPT
                                ![at].keywords = Append(@, wordItem.word)]

RECURSIVE enhanceTopicKeywordsUpTo(_, _, _)
enhanceTopicKeywordsUpTo(topicKeywords, expandedWordlist, n) ==
    IF n = 0 THEN topicKeywords
    ELSE EnhanceVisit(enhanceTopicKeywordsUpTo(topicKeywords, expandedWordlist, n - 1),
                      expandedWordlist[n])

enhanceTopicKeywords(topicKeywords, expandedWordlist) ==
    enhanceTopicKeywordsUpTo(topicKeywords, expandedWordlist, Len(expandedWordlist))

----------------------------------------------------------------------------
(* loadExpandedWordlist: the rows Papa.parse returns are sequences of cells,  *)
(* a cell the sequence of its characters                                     *)

Digit ==
    ("0" :> 0) @@ ("1" :> 1) @@ ("2" :> 2) @@ ("3" :> 3) @@ ("4" :> 4) @@
    ("5" :> 5) @@ ("6" :> 6) @@ ("7" :> 7) @@ ("8" :> 8) @@ ("9" :> 9)

\* the number a string of digits is read as
RECURSIVE DigitsValue(_)
DigitsValue(s) ==
    IF s = <<>> THEN 0 ELSE 10 * DigitsValue(SubSeq(s, 1, Len(s) - 1)) + Digit[s[Len(s)]]

\* the digits a string begins with, and those it ends with
RECURSIVE LeadingDigits(_)
LeadingDigits(s) ==
    IF s # <<>> /\ Head(s) \in DOMAIN Digit THEN <<Head(s)>> \o LeadingDigits(Tail(s))
    ELSE <<>>

RECURSIVE TrailingDigits(_)
TrailingDigits(s) ==
    IF s # <<>> /\ s[Len(s)] \in DOMAIN Digit
        THEN Append(TrailingDigits(SubSeq(s, 1, Len(s) - 1)), s[Len(s)])
    ELSE <<>>

\* parseInt(cell), for a cell without a sign: <<>> stands for NaN, <<n>> for n
ParseIntOfCell(cell) ==
    LET digits == LeadingDigits(TrimStart(cell))
    IN  IF digits = <<>> THEN <<>> ELSE <<DigitsValue(digits)>>

\* cell.toLowerCase(), for the capital letters the cells are written with
LowerCase(cell) == [i \in 1..Len(cell) |-> IF cell[i] = "T" THEN "t" ELSE cell[i]]

\* cell.includes(text)
IncludesText(cell, text) ==
    \E i \in 0..(Len(cell) - Len(text)) : SubSeq(cell, i + 1, i + Len(text)) = text

\* rowIndex === 0 && (row[0].toLowerCase().includes('topic') || isNaN(parseInt(row[0])))
IsHeaderRow(row, rowIndex) ==
    /\ rowIndex = 0
    /\ \/ IncludesText(LowerCase(row[1]), <<"t", "o", "p", "i", "c">>)
       \/ ParseIntOfCell(row[1]) = <<>>

\* topicId after the match of /\d+$/ and the parseInt of the whole cell
TopicIdOf(topicCell) ==
    LET topicMatch == TrailingDigits(topicCell)
    IN  IF topicMatch # <<>> THEN DigitsValue(topicMatch)
        ELSE IF ParseIntOfCell(topicCell) # <<>> THEN ParseIntOfCell(topicCell)[1]
        ELSE 0

\* the string of the characters
RECURSIVE Join(_)
Join(characters) ==
    IF characters = <<>> THEN "" ELSE Head(characters) \o Join(Tail(characters))

\* what row.slice(1).forEach has pushed after the cells up to the n-th of the row
RECURSIVE RowWordsUpTo(_, _, _)
RowWordsUpTo(row, topicId, n) ==
    IF n <= 1 THEN <<>>
    ELSE LET before == RowWordsUpTo(row, topicId, n - 1)
             word == row[n]
         IN  IF word # <<>> /\ Trim(word) # <<>>
                 THEN Append(before, [topic_id |-> topicId, word |-> Join(Trim(word))])
             ELSE before

\* what one pass of result.data.forEach pushes
WordlistRow(row, rowIndex) ==
    IF IsHeaderRow(row, rowIndex) THEN <<>>
    ELSE LET topicId == TopicIdOf(row[1])
         IN  IF topicId = 0 THEN <<>> ELSE RowWordsUpTo(row, topicId, Len(row))

RECURSIVE loadExpandedWordlistUpTo(_, _)
loadExpandedWordlistUpTo(rows, n) ==
    IF n = 0 THEN <<>>
    ELSE loadExpandedWordlistUpTo(rows, n - 1) \o WordlistRow(rows[n], n - 1)

\* processedWordlist, from result.data
loadExpandedWordlist(rows) == loadExpandedWordlistUpTo(rows, Len(rows))

\* the tables of the other three loaders
NmfTables ==
    { << <<"", "0", "1">>, <<"dala", "", "el">>, <<"soz", "dala">> >> }

LabelTables ==
    { << (TopicNumber :> TopicLabelText(1)) @@ (TopicName :> <<"Homeland">>) >> }

Wordlists ==
    { << [topic_id |-> 1, word |-> "el"], [topic_id |-> 2, word |-> "kitap"],
         [topic_id |-> 3, word |-> "jer"], [topic_id |-> 1, word |-> "jer"] >> }

\* other keyword rows and wordlists: cells that repeat, differ in case or are empty,
\* words for a topic that is not there
MaxCells == 2

MaxWords == 2

KeywordCells == {"", "el", "dala"}

KeywordTables ==
    {<< <<"", "0", "1">>, row, <<"soz">> >> : row \in SeqsUpTo(KeywordCells, MaxCells)}

WordItems ==
    { [topic_id |-> 1, word |-> "el"], [topic_id |-> 1, word |-> "El"],
      [topic_id |-> 1, word |-> "jer"], [topic_id |-> 2, word |-> "jer"],
      [topic_id |-> 2, word |-> "soz"], [topic_id |-> 3, word |-> "el"] }

\* the rows of wordlist.csv the wordlists above are read from: one row for each pair
RowOfItem(item) == << <<CHOOSE c \in DOMAIN Digit : Digit[c] = item.topic_id>>, <<item.word>> >>

RowsOfItems(items) == [k \in 1..Len(items) |-> RowOfItem(items[k])]

WordlistFiles == {RowsOfItems(items) : items \in Wordlists}

WordItemFiles == {RowsOfItems(items) : items \in SeqsUpTo(WordItems, MaxWords)}

\* other files: first cells with and without a topic number, cells to be trimmed,
\* blank and empty cells
MaxRows == 2

TopicCells ==
    { <<"1">>, <<"T", "o", "p", "i", "c", " ", "2">>, <<"0">>, <<"x">>, <<"2", "x">>, <<>> }

WordCells == { <<<<"el">>>>, << <<" ", "jer", " ">>, <<" ">>, <<>>, <<"el">> >> }

WordlistRows == {<<topicCell>> \o words : topicCell \in TopicCells, words \in WordCells}

RichWordlistFiles == SeqsUpTo(WordlistRows, MaxRows)

----------------------------------------------------------------------------
(* TemporalTrends: createTemporalVisualization, the decade aggregation *)

\* Object.entries(booksByYear).map(...).sort((a, b) => a.year - b.year)
RECURSIVE YearData(_)
YearData(byYear) ==
    IF DOMAIN byYear = {} THEN <<>>
    ELSE LET keys == DOMAIN byYear
             first == CHOOSE k \in keys : \A other \in keys : ParseInt(k) - ParseInt(other) <= 0
         IN  <<[year |-> ParseInt(first),
                count |-> byYear[first].count,
                topicDistribution |-> byYear[first].topicDistribution]>>
             \o YearData([k \in keys \ {first} |-> byYear[k]])

\* Math.round(year / 10) * 10
DecadeOfRounded(year) == ((year + 5) \div 10) * 10

\* Math.floor(year / 10) * 10
DecadeOf(year) == (year \div 10) * 10

\* the first topic of the loop  for (let i = 2; i <= 13; i++)
FirstSummedTopic == 2

\* one pass of yearData.forEach over yearItem
DecadeVisit(decadeData, yearItem) ==
    LET decade == DecadeOf(yearItem.year)
        entry == IF decade \in DOMAIN decadeData THEN decadeData[decade]
                 ELSE [decade |-> decade, totalBooks |-> 0, years |-> <<>>,
                       topicSums |-> ZeroDistribution, dominantTopics |-> ZeroDistribution]
        summed == {TopicKey(i) : i \in FirstSummedTopic..NumTopics}
        updated ==
            [entry EXCEPT
                !.totalBooks = @ + yearItem.count,
                !.years = Append(@, yearItem),
                !.topicSums =
                    Eager([t \in TopicKeySet |->
                        IF t \in summed /\ Has(yearItem.topicDistribution, t)
                            THEN RAdd(@[t], RMul(yearItem.topicDistribution[t],
                                                 FromInt(yearItem.count)))
                        ELSE @[t]])]
    IN  Eager([d \in DOMAIN decadeData \cup {decade} |->
            IF d = decade THEN updated ELSE decadeData[d]])

RECURSIVE DecadeSums(_, _)
DecadeSums(yearData, n) ==
    IF n = 0 THEN <<>> ELSE DecadeVisit(DecadeSums(yearData, n - 1), yearData[n])

\* maxTopic after the scan  for (let i = 1; i <= 13; i++)  has reached topic i
RECURSIVE MaxTopicUpTo(_, _)
MaxTopicUpTo(topicSums, i) ==
    IF i = 0 THEN [maxTopic |-> "null", maxValue |-> <<0 - 1, 0>>]
    ELSE LET before == MaxTopicUpTo(topicSums, i - 1)
         IN  IF RGreater(topicSums[TopicKey(i)], before.maxValue)
                 THEN [maxTopic |-> TopicKey(i), maxValue |-> topicSums[TopicKey(i)]]
             ELSE before

\* Object.values(decadeData).forEach(decade => ...): the averages and the dominant topic
DecadeAverage(decade) ==
    LET topicSums ==
            IF decade.totalBooks > 0
                THEN Eager([t \in TopicKeySet |->
                               RDiv(decade.topicSums[t], FromInt(decade.totalBooks))])
            ELSE decade.topicSums
    IN  [decade |-> decade.decade,
         totalBooks |-> decade.totalBooks,
         years |-> decade.years,
         topicSums |-> topicSums,
         dominantTopics |-> decade.dominantTopics,
         dominantTopic |-> MaxTopicUpTo(topicSums, NumTopics).maxTopic]

\* Object.values(decadeData).sort((a, b) => a.decade - b.decade)
RECURSIVE DecadeArray(_)
DecadeArray(decadeData) ==
    IF DOMAIN decadeData = {} THEN <<>>
    ELSE LET keys == DOMAIN decadeData
             first == CHOOSE d \in keys : \A other \in keys : d - other <= 0
         IN  <<decadeData[first]>> \o DecadeArray([d \in keys \ {first} |-> decadeData[d]])

createTemporalVisualization(byYear) ==
    LET yearData == YearData(byYear)
        decadeData == DecadeSums(yearData, Len(yearData))
    IN  DecadeArray([d \in DOMAIN decadeData |-> DecadeAverage(decadeData[d])])

----------------------------------------------------------------------------
(* The names the charts show for the topics *)

\* key.replace("Topic_", ""): the number n of the key `Topic_${n}`
TopicNumberOf(key) == CHOOSE n \in 1..NumTopics : TopicKey(n) = key

\* the characters of the key `Topic_${n}`, written as the texts of the labels are
TopicKeyText(n) == <<"Topic_", n>>

\* const topicLabel = topicLabels.find(label => label["Topic Number"] === `Topic ${n}`);
\* topicLabel ? topicLabel["Topic Name"] : key
TopicNameOrKey(labels, key) ==
    LET topicNumber == TopicNumberOf(key)
        IsLabel(label) ==
            Has(label, TopicNumber) /\ label[TopicNumber] = TopicLabelText(topicNumber)
        topicLabel == FirstWhere(labels, IsLabel)
    IN  IF topicLabel # <<>> THEN topicLabel[1][TopicName] ELSE TopicKeyText(topicNumber)

\* entries.sort((a, b) => b.value - a.value): by falling value, equal values in the
\* order they had
RECURSIVE ByFallingValue(_, _)
ByFallingValue(entries, left) ==
    IF left = {} THEN <<>>
    ELSE LET first == CHOOSE i \in left : \A k \in left \ {i} :
                          \/ RGreater(entries[i].value, entries[k].value)
                          \/ ~RGreater(entries[k].value, entries[i].value) /\ i < k
         IN  <<entries[first]>> \o ByFallingValue(entries, left \ {first})

\* array.slice(0, n)
SliceTo(array, n) == SubSeq(array, 1, IF Len(array) < n THEN Len(array) ELSE n)

\* how many themes the tooltip of a decade lists
TopThemes == 3

\* what the mouseover handler of a bar of TemporalTrends writes into the tooltip
BarTooltip(labels, d) ==
    LET entries == [n \in 1..NumTopics |->
                       [topic |-> TopicKey(n),
                        name |-> TopicNameOrKey(labels, TopicKey(n)),
                        value |-> d.topicSums[TopicKey(n)]]]
    IN  [decade |-> d.decade,
         totalBooks |-> d.totalBooks,
         dominantTopic |-> d.dominantTopic,
         topicName |-> TopicNameOrKey(labels, d.dominantTopic),
         topTopics |-> SliceTo(ByFallingValue(entries, 1..NumTopics), TopThemes)]

\* const topicNames = keys.map(key => ...) of createStreamGraph; createLineChart has none
TopicNames(labels, viewType) ==
    IF viewType = "stream"
        THEN [n \in 1..NumTopics |-> TopicNameOrKey(labels, TopicKey(n))]
    ELSE <<>>

\* what the mouseover handler of an area or a line of TopicEvolution shows
AreaTooltip(labels, key) == [key |-> key, topicName |-> TopicNameOrKey(labels, key)]

----------------------------------------------------------------------------
(* App: its effect calls loadAllData, which awaits the four loaders and runs *)
(* the aggregators; App stores the result and mounts the chart components,  *)
(* whose effects draw the charts                                            *)

VARIABLES documentTopics, topN, nmfTopics, topicLabels, wordlistRows, expandedWordlist,
          pc, booksByYear, topAuthors, topicEvolution, topicCorrelations,
          normalizedDocs, topicKeywords, enhancedTopicKeywords,
          normalizationFlags, decadeArray, loading, data, promise,
          view, highlightedTopic, topicNames, evolutionTooltip, trendsTooltip,
          selected, resizeListeners

inputs == <<documentTopics, topN, nmfTopics, topicLabels, wordlistRows, expandedWordlist>>

\* the state of App and the promise of its call of loadAllData
app == <<loading, data, promise>>

\* the state of TopicEvolution, what it and TemporalTrends show, the selection of each
\* of the other charts, and the 'resize' listeners each chart has on window
charts == <<view, highlightedTopic, topicNames, evolutionTooltip, trendsTooltip,
            selected, resizeListeners>>

vars == <<documentTopics, topN, nmfTopics, topicLabels, wordlistRows, expandedWordlist,
          pc, booksByYear, topAuthors, topicEvolution, topicCorrelations,
          normalizedDocs, topicKeywords, enhancedTopicKeywords,
          normalizationFlags, decadeArray, loading, data, promise,
          view, highlightedTopic, topicNames, evolutionTooltip, trendsTooltip,
          selected, resizeListeners>>

\* the charts that put a 'resize' listener on window
ResizingCharts == {"TopicOverview", "TopicNetwork", "KeywordsCloud", "TemporalTrends"}

\* useState(null): data is null, or holds the one object it was set to
Null == <<>>

\* no chart is mounted: the states are what useState is given, nothing is drawn and
\* no listener is registered
NoChartMounted ==
    /\ view = "stream"
    /\ highlightedTopic = <<>>
    /\ topicNames = <<>>
    /\ evolutionTooltip = <<>>
    /\ trendsTooltip = <<>>
    /\ selected = [c \in ResizingCharts |-> <<>>]
    /\ resizeListeners = [c \in ResizingCharts |-> 0]

\* no aggregator has run; App shows the loading container
NothingAggregated ==
    /\ NoChartMounted
    /\ booksByYear = <<>>
    /\ topAuthors = <<>>
    /\ topicEvolution = <<>>
    /\ topicCorrelations = <<>>
    /\ normalizedDocs = <<>>
    /\ topicKeywords = <<>>
    /\ enhancedTopicKeywords = <<>>
    /\ normalizationFlags = <<>>
    /\ decadeArray = <<>>
    /\ loading = TRUE
    /\ data = Null
    /\ promise = "pending"

\* the four tables are parsed, the first aggregator is about to run
NothingComputed ==
    /\ pc = "aggregateBooksByYear"
    /\ NothingAggregated

\* App is mounted, its effect has called fetchData, loadAllData awaits its first loader
Init ==
    /\ documentTopics \in DocumentTables
    /\ topN = DefaultTopN
    /\ nmfTopics \in NmfTables
    /\ topicLabels \in LabelTables
    /\ wordlistRows \in WordlistFiles
    /\ expandedWordlist = loadExpandedWordlist(wordlistRows)
    /\ pc = "loadTopicLabels"
    /\ NothingAggregated

\* a loader's error is swallowed: loadAllData goes on to its aggregators
LoaderThrowsAndIsIgnored ==
    /\ pc' = "aggregateBooksByYear"
    /\ promise' = "rejected"

\* a loader throws: loadAllData logs and rethrows, no later line of its try block runs
LoaderThrows ==
    /\ pc' = "failed"
    /\ promise' = "rejected"

\* const topicLabels = await loadTopicLabels()
LoadTopicLabels ==
    /\ pc = "loadTopicLabels"
    /\ \E ok \in BOOLEAN :
           IF ok THEN pc' = "loadNMFTopics" /\ promise' = promise ELSE LoaderThrows
    /\ UNCHANGED <<inputs, booksByYear, topAuthors, topicEvolution, topicCorrelations,
                   normalizedDocs, topicKeywords, enhancedTopicKeywords,
                   normalizationFlags, decadeArray, loading, data, charts>>

\* const nmfTopics = await loadNMFTopics()
LoadNMFTopics ==
    /\ pc = "loadNMFTopics"
    /\ \E ok \in BOOLEAN :
           IF ok THEN pc' = "loadDocumentTopics" /\ promise' = promise ELSE LoaderThrows
    /\ UNCHANGED <<inputs, booksByYear, topAuthors, topicEvolution, topicCorrelations,
                   normalizedDocs, topicKeywords, enhancedTopicKeywords,
                   normalizationFlags, decadeArray, loading, data, charts>>

\* const documentTopics = await loadDocumentTopics()
LoadDocumentTopics ==
    /\ pc = "loadDocumentTopics"
    /\ \E ok \in BOOLEAN :
           IF ok THEN pc' = "loadExpandedWordlist" /\ promise' = promise ELSE LoaderThrows
    /\ UNCHANGED <<inputs, booksByYear, topAuthors, topicEvolution, topicCorrelations,
                   normalizedDocs, topicKeywords, enhancedTopicKeywords,
                   normalizationFlags, decadeArray, loading, data, charts>>

\* const expandedWordlist = await loadExpandedWordlist()
LoadExpandedWordlist ==
    /\ pc = "loadExpandedWordlist"
    /\ \E ok \in BOOLEAN :
           IF ok THEN pc' = "aggregateBooksByYear" /\ promise' = promise ELSE LoaderThrows
    /\ UNCHANGED <<inputs, booksByYear, topAuthors, topicEvolution, topicCorrelations,
                   normalizedDocs, topicKeywords, enhancedTopicKeywords,
                   normalizationFlags, decadeArray, loading, data, charts>>

RunAggregateBooksByYear ==
    /\ pc = "aggregateBooksByYear"
    /\ booksByYear' = aggregateBooksByYear(documentTopics)
    /\ normalizationFlags' = normalizationFlags @@
           ("aggregateBooksByYear" :> ByYearNeedsNormalization(documentTopics))
    /\ pc' = "getTopAuthors"
    /\ UNCHANGED <<inputs, topAuthors, topicEvolution, topicCorrelations, normalizedDocs,
                   topicKeywords, enhancedTopicKeywords, decadeArray, app, charts>>

RunGetTopAuthors ==
    /\ pc = "getTopAuthors"
    /\ topAuthors' = getTopAuthors(documentTopics, topN)
    /\ normalizationFlags' = normalizationFlags @@
           ("getTopAuthors" :> TopAuthorsNeedsNormalization(documentTopics))
    /\ pc' = "calculateTopicEvolutionByYear"
    /\ UNCHANGED <<inputs, booksByYear, topicEvolution, topicCorrelations, normalizedDocs,
                   topicKeywords, enhancedTopicKeywords, decadeArray, app, charts>>

RunCalculateTopicEvolutionByYear ==
    /\ pc = "calculateTopicEvolutionByYear"
    /\ topicEvolution' = calculateTopicEvolutionByYear(documentTopics)
    /\ normalizationFlags' = normalizationFlags @@
           ("calculateTopicEvolutionByYear" :> EvolutionNeedsNormalization(documentTopics))
    /\ pc' = "calculateTopicCorrelations"
    /\ UNCHANGED <<inputs, booksByYear, topAuthors, topicCorrelations, normalizedDocs,
                   topicKeywords, enhancedTopicKeywords, decadeArray, app, charts>>

RunCalculateTopicCorrelations ==
    /\ pc = "calculateTopicCorrelations"
    /\ normalizedDocs' = NormalizedDocs(documentTopics)
    /\ topicCorrelations' = calculateTopicCorrelations(documentTopics)
    /\ normalizationFlags' = normalizationFlags @@
           ("calculateTopicCorrelations" :> CorrelationsNeedsNormalization(documentTopics))
    /\ pc' = "prepareTopicKeywords"
    /\ UNCHANGED <<inputs, booksByYear, topAuthors, topicEvolution,
                   topicKeywords, enhancedTopicKeywords, decadeArray, app, charts>>

RunPrepareTopicKeywords ==
    /\ pc = "prepareTopicKeywords"
    /\ topicKeywords' = prepareTopicKeywords(nmfTopics, topicLabels)
    /\ pc' = "enhanceTopicKeywords"
    /\ UNCHANGED <<inputs, booksByYear, topAuthors, topicEvolution, topicCorrelations,
                   normalizedDocs, enhancedTopicKeywords, normalizationFlags, decadeArray,
                   app, charts>>

\* [...topicKeywords] copies the array, not the topic objects: the words pushed
\* into a topic of enhancedKeywords are pushed into the same object of topicKeywords
RunEnhanceTopicKeywords ==
    /\ pc = "enhanceTopicKeywords"
    /\ enhancedTopicKeywords' = enhanceTopicKeywords(topicKeywords, expandedWordlist)
    /\ topicKeywords' = enhanceTopicKeywords(topicKeywords, expandedWordlist)
    /\ pc' = "done"
    /\ UNCHANGED <<inputs, booksByYear, topAuthors, topicEvolution, topicCorrelations,
                   normalizedDocs, normalizationFlags, decadeArray, app, charts>>

\* the object loadAllData returns
LoadedData ==
    [raw |-> [topicLabels |-> topicLabels,
              nmfTopics |-> nmfTopics,
              documentTopics |-> documentTopics,
              expandedWordlist |-> expandedWordlist],
     processed |-> [booksByYear |-> booksByYear,
                    topAuthors |-> topAuthors,
                    topicEvolution |-> topicEvolution,
                    topicCorrelations |-> topicCorrelations,
                    topicKeywords |-> enhancedTopicKeywords]]

\* fetchData after the await: setData(loadedData), then finally setLoading(false)
FetchDataResolved ==
    /\ pc = "done"
    /\ promise' = "fulfilled"
    /\ data' = <<LoadedData>>
    /\ loading' = FALSE
    /\ pc' = "mounted"
    /\ UNCHANGED <<inputs, booksByYear, topAuthors, topicEvolution, topicCorrelations,
                   normalizedDocs, topicKeywords, enhancedTopicKeywords,
                   normalizationFlags, decadeArray, charts>>

\* fetchData when loadAllData threw: console.error, then finally setLoading(false)
FetchDataRejected ==
    /\ pc = "failed"
    /\ loading' = FALSE
    /\ pc' = "mounted"
    /\ UNCHANGED <<inputs, booksByYear, topAuthors, topicEvolution, topicCorrelations,
                   normalizedDocs, topicKeywords, enhancedTopicKeywords,
                   normalizationFlags, decadeArray, data, promise, charts>>

\* what App returns: the loading container while loading, else the chart sections
LoadingContainer == "loading-container"

ChartSections == "App"

Rendered == IF loading THEN LoadingContainer ELSE ChartSections

\* what the effects and handlers of the charts leave alone
loaded == <<inputs, booksByYear, topAuthors, topicEvolution, topicCorrelations,
            normalizedDocs, topicKeywords, enhancedTopicKeywords, normalizationFlags, app>>

\* window.addEventListener('resize', handleResize), by the chart
WithListenerOf(chart) == [resizeListeners EXCEPT ![chart] = @ + 1]

\* the listeners after an effect of the chart that never removes the one it added
AfterEffectOf(chart) == IF data = Null THEN resizeListeners ELSE WithListenerOf(chart)

\* the effects of the charts run in the order App renders them.  The effect of
\* TopicOverview returns early while data is null; its listener is removed by the
\* function it returns
RunTopicOverviewEffect ==
    /\ pc = "mounted"
    /\ Rendered = ChartSections
    /\ resizeListeners' = AfterEffectOf("TopicOverview")
    /\ pc' = "TopicEvolution"
    /\ UNCHANGED <<loaded, decadeArray, view, highlightedTopic, topicNames,
                   evolutionTooltip, trendsTooltip, selected>>

\* the effect of TopicEvolution: createVisualization draws the chart of the view
RunCreateVisualization ==
    /\ pc = "TopicEvolution"
    /\ topicNames' = IF data = Null THEN topicNames
                     ELSE TopicNames(data[1].raw.topicLabels, view)
    /\ pc' = "TopicNetwork"
    /\ UNCHANGED <<loaded, decadeArray, view, highlightedTopic, evolutionTooltip,
                   trendsTooltip, selected, resizeListeners>>

\* the effect of TopicNetwork: the function createNetworkVisualization returns is
\* not returned by the effect
RunCreateNetworkVisualization ==
    /\ pc = "TopicNetwork"
    /\ resizeListeners' = AfterEffectOf("TopicNetwork")
    /\ pc' = "KeywordsCloud"
    /\ UNCHANGED <<loaded, decadeArray, view, highlightedTopic, topicNames,
                   evolutionTooltip, trendsTooltip, selected>>

\* the effect of KeywordsCloud: the function createWordCloud returns is not returned
\* by the effect
RunCreateWordCloud ==
    /\ pc = "KeywordsCloud"
    /\ resizeListeners' = AfterEffectOf("KeywordsCloud")
    /\ pc' = "TemporalTrends"
    /\ UNCHANGED <<loaded, decadeArray, view, highlightedTopic, topicNames,
                   evolutionTooltip, trendsTooltip, selected>>

\* the effect of TemporalTrends: it returns early while data is null; the function
\* createTemporalVisualization returns is not returned by the effect
RunCreateTemporalVisualization ==
    /\ pc = "TemporalTrends"
    /\ decadeArray' = IF data = Null THEN decadeArray
                      ELSE createTemporalVisualization(data[1].processed.booksByYear)
    /\ resizeListeners' = AfterEffectOf("TemporalTrends")
    /\ pc' = "rendered"
    /\ UNCHANGED <<loaded, view, highlightedTopic, topicNames, evolutionTooltip,
                   trendsTooltip, selected>>

Next ==
    \/ LoadTopicLabels
    \/ LoadNMFTopics
    \/ LoadDocumentTopics
    \/ LoadExpandedWordlist
    \/ RunAggregateBooksByYear
    \/ RunGetTopAuthors
    \/ RunCalculateTopicEvolutionByYear
    \/ RunCalculateTopicCorrelations
    \/ RunPrepareTopicKeywords
    \/ RunEnhanceTopicKeywords
    \/ FetchDataResolved
    \/ FetchDataRejected
    \/ RunTopicOverviewEffect
    \/ RunCreateVisualization
    \/ RunCreateNetworkVisualization
    \/ RunCreateWordCloud
    \/ RunCreateTemporalVisualization

Spec == Init /\ [][Next]_vars

\* the first two aggregators on tables longer than the sample
InitLong ==
    /\ documentTopics \in LongTables
    /\ topN = DefaultTopN
    /\ nmfTopics \in NmfTables
    /\ topicLabels \in LabelTables
    /\ wordlistRows \in WordlistFiles
    /\ expandedWordlist = loadExpandedWordlist(wordlistRows)
    /\ NothingComputed

NextLong ==
    \/ RunAggregateBooksByYear
    \/ RunGetTopAuthors

SpecLong == InitLong /\ [][NextLong]_vars

\* getTopAuthors(documentTopics, n) for the other values of n
InitTopN ==
    /\ documentTopics \in DocumentTables
    /\ topN \in TopNs
    /\ nmfTopics \in NmfTables
    /\ topicLabels \in LabelTables
    /\ wordlistRows \in WordlistFiles
    /\ expandedWordlist = loadExpandedWordlist(wordlistRows)
    /\ NothingComputed

SpecTopN == InitTopN /\ [][NextLong]_vars

\* the four aggregators on tables of more documents than the sample
InitSample ==
    /\ documentTopics \in SampleTables
    /\ topN = DefaultTopN
    /\ nmfTopics \in NmfTables
    /\ topicLabels \in LabelTables
    /\ wordlistRows \in WordlistFiles
    /\ expandedWordlist = loadExpandedWordlist(wordlistRows)
    /\ NothingComputed

NextSample ==
    \/ RunAggregateBooksByYear
    \/ RunGetTopAuthors
    \/ RunCalculateTopicEvolutionByYear
    \/ RunCalculateTopicCorrelations

SpecSample == InitSample /\ [][NextSample]_vars

\* the keyword functions on other keyword rows and wordlists, the document table
\* being empty and its four aggregators having run
InitKeywords ==
    /\ documentTopics = <<>>
    /\ topN = DefaultTopN
    /\ nmfTopics \in KeywordTables
    /\ topicLabels \in LabelTables
    /\ wordlistRows \in WordItemFiles
    /\ expandedWordlist = loadExpandedWordlist(wordlistRows)
    /\ pc = "prepareTopicKeywords"
    /\ booksByYear = aggregateBooksByYear(<<>>)
    /\ topAuthors = getTopAuthors(<<>>, DefaultTopN)
    /\ topicEvolution = calculateTopicEvolutionByYear(<<>>)
    /\ topicCorrelations = calculateTopicCorrelations(<<>>)
    /\ normalizedDocs = NormalizedDocs(<<>>)
    /\ normalizationFlags =
           [a \in {"aggregateBooksByYear", "getTopAuthors", "calculateTopicEvolutionByYear",
                   "calculateTopicCorrelations"} |-> FALSE]
    /\ topicKeywords = <<>>
    /\ enhancedTopicKeywords = <<>>
    /\ decadeArray = <<>>
    /\ loading = TRUE
    /\ data = Null
    /\ promise = "pending"
    /\ NoChartMounted

NextKeywords ==
    \/ RunPrepareTopicKeywords
    \/ RunEnhanceTopicKeywords

SpecKeywords == InitKeywords /\ [][NextKeywords]_vars

\* loadExpandedWordlist on other files
InitWordlist ==
    /\ documentTopics \in {<<>>}
    /\ topN = DefaultTopN
    /\ nmfTopics \in NmfTables
    /\ topicLabels \in LabelTables
    /\ wordlistRows \in RichWordlistFiles
    /\ expandedWordlist = loadExpandedWordlist(wordlistRows)
    /\ pc = "loadExpandedWordlist"
    /\ NothingAggregated

NextWordlist ==
    \/ LoadExpandedWordlist
    \/ FetchDataRejected

SpecWordlist == InitWordlist /\ [][NextWordlist]_vars

----------------------------------------------------------------------------
(* The charts after App has rendered them: their handlers and effects       *)

\* the tables the charts are drawn from
ChartTables ==
    { <<>>,
      <<ExampleFirstRow>>,
      <<ExampleFirstRow, NinetyRow>>,
      <<NinetyRow,
        Row("Author" :> <<"B">>, "Year" :> 995, BookTitle :> <<"t", "2">>,
            [Topic_3 |-> One])>> }

ChartLabelTables ==
    { <<>>,
      << (TopicNumber :> TopicLabelText(1)) @@ (TopicName :> <<"Homeland">>) >>,
      << (TopicNumber :> TopicLabelText(2)) @@ (TopicName :> <<"Steppe">>),
         (TopicNumber :> TopicLabelText(1)) @@ (TopicName :> <<"Homeland">>) >> }

\* App has rendered the chart sections and no effect of a chart has run: loadAllData
\* returned its object, or one of its loaders threw
InitCharts ==
    /\ documentTopics \in ChartTables
    /\ topN = DefaultTopN
    /\ nmfTopics \in NmfTables
    /\ topicLabels \in ChartLabelTables
    /\ wordlistRows \in WordlistFiles
    /\ expandedWordlist = loadExpandedWordlist(wordlistRows)
    /\ pc = "mounted"
    /\ decadeArray = <<>>
    /\ loading = FALSE
    /\ NoChartMounted
    /\ \/ /\ booksByYear = aggregateBooksByYear(documentTopics)
          /\ topAuthors = getTopAuthors(documentTopics, topN)
          /\ topicEvolution = calculateTopicEvolutionByYear(documentTopics)
          /\ topicCorrelations = calculateTopicCorrelations(documentTopics)
          /\ normalizedDocs = NormalizedDocs(documentTopics)
          /\ normalizationFlags =
                 [a \in {"aggregateBooksByYear"} |-> ByYearNeedsNormalization(documentTopics)]
                 @@ [a \in {"getTopAuthors"} |-> TopAuthorsNeedsNormalization(documentTopics)]
                 @@ [a \in {"calculateTopicEvolutionByYear"} |->
                        EvolutionNeedsNormalization(documentTopics)]
                 @@ [a \in {"calculateTopicCorrelations"} |->
                        CorrelationsNeedsNormalization(documentTopics)]
          /\ topicKeywords =
                 enhanceTopicKeywords(prepareTopicKeywords(nmfTopics, topicLabels),
                                      expandedWordlist)
          /\ enhancedTopicKeywords = topicKeywords
          /\ promise = "fulfilled"
          /\ data = <<LoadedData>>
       \/ /\ booksByYear = <<>>
          /\ topAuthors = <<>>
          /\ topicEvolution = <<>>
          /\ topicCorrelations = <<>>
          /\ normalizedDocs = <<>>
          /\ normalizationFlags = <<>>
          /\ topicKeywords = <<>>
          /\ enhancedTopicKeywords = <<>>
          /\ promise = "rejected"
          /\ data = Null

\* a click that selects the item even when it is the selected one
ToggledAlwaysSelecting(selection, item) == <<item>>

\* the value a click on the item gives a selection: null if it is the selected one
Toggled(selection, item) == IF selection = <<item>> THEN <<>> ELSE <<item>>

\* onClick={() => setView(viewType)}: a new view makes the effect of TopicEvolution
\* run again
SetView(viewType) ==
    /\ pc = "rendered"
    /\ view' = viewType
    /\ topicNames' = IF data = Null \/ viewType = view THEN topicNames
                     ELSE TopicNames(data[1].raw.topicLabels, viewType)
    /\ UNCHANGED <<loaded, pc, decadeArray, highlightedTopic, evolutionTooltip,
                   trendsTooltip, selected, resizeListeners>>

\* the click handler of an area or a line, which the effect has drawn over the years:
\* setHighlightedTopic(highlightedTopic === d.key ? null : d.key), then the effect
ClickTopic(key) ==
    /\ pc = "rendered"
    /\ data # Null
    /\ Len(data[1].processed.topicEvolution) > 0
    /\ highlightedTopic' = Toggled(highlightedTopic, key)
    /\ topicNames' = TopicNames(data[1].raw.topicLabels, view)
    /\ UNCHANGED <<loaded, pc, decadeArray, view, evolutionTooltip, trendsTooltip,
                   selected, resizeListeners>>

\* {highlightedTopic && <button onClick={() => setHighlightedTopic(null)}>}
ClearSelectionOffered == highlightedTopic # <<>>

ClearSelection ==
    /\ pc = "rendered"
    /\ ClearSelectionOffered
    /\ highlightedTopic' = <<>>
    /\ topicNames' = IF data = Null THEN topicNames
                     ELSE TopicNames(data[1].raw.topicLabels, view)
    /\ UNCHANGED <<loaded, pc, decadeArray, view, evolutionTooltip, trendsTooltip,
                   selected, resizeListeners>>

\* the mouseover handler of an area or a line of TopicEvolution
MouseoverTopic(key) ==
    /\ pc = "rendered"
    /\ data # Null
    /\ Len(data[1].processed.topicEvolution) > 0
    /\ evolutionTooltip' = <<AreaTooltip(data[1].raw.topicLabels, key)>>
    /\ UNCHANGED <<loaded, pc, decadeArray, view, highlightedTopic, topicNames,
                   trendsTooltip, selected, resizeListeners>>

\* the mouseover handler of the bar of decadeArray[n]
MouseoverBar(n) ==
    /\ pc = "rendered"
    /\ data # Null
    /\ trendsTooltip' = <<BarTooltip(data[1].raw.topicLabels, decadeArray[n])>>
    /\ UNCHANGED <<loaded, pc, decadeArray, view, highlightedTopic, topicNames,
                   evolutionTooltip, selected, resizeListeners>>

NextEvolution ==
    \/ RunTopicOverviewEffect
    \/ RunCreateVisualization
    \/ RunCreateNetworkVisualization
    \/ RunCreateWordCloud
    \/ RunCreateTemporalVisualization
    \/ \E viewType \in {"stream", "line"} : SetView(viewType)
    \/ \E key \in TopicKeySet : ClickTopic(key)
    \/ ClearSelection
    \/ \E key \in TopicKeySet : MouseoverTopic(key)
    \/ \E n \in 1..Len(decadeArray) : MouseoverBar(n)

SpecEvolution == InitCharts /\ [][NextEvolution]_vars

\* how many listeners a chart is followed to
MaxListeners == 3

\* the click handler of the bar of decadeArray[n]:
\* setSelectedDecade(selectedDecade === d.decade ? null : d.decade), then the effect
ClickBar(n) ==
    /\ pc = "rendered"
    /\ data # Null
    /\ resizeListeners["TemporalTrends"] < MaxListeners
    /\ selected' = [selected EXCEPT
                        !["TemporalTrends"] = Toggled(@, decadeArray[n].decade)]
    /\ decadeArray' = createTemporalVisualization(data[1].processed.booksByYear)
    /\ resizeListeners' = WithListenerOf("TemporalTrends")
    /\ UNCHANGED <<loaded, pc, view, highlightedTopic, topicNames, evolutionTooltip,
                   trendsTooltip>>

\* the click handler of a topic button of KeywordsCloud:
\* setSelectedTopic(selectedTopic === d.id ? null : d.id), then the effect
ClickTopicButton(n) ==
    /\ pc = "rendered"
    /\ data # Null
    /\ resizeListeners["KeywordsCloud"] < MaxListeners
    /\ selected' = [selected EXCEPT
                        !["KeywordsCloud"] = Toggled(@, data[1].processed.topicKeywords[n].id)]
    /\ resizeListeners' = WithListenerOf("KeywordsCloud")
    /\ UNCHANGED <<loaded, pc, decadeArray, view, highlightedTopic, topicNames,
                   evolutionTooltip, trendsTooltip>>

\* `Topic_${parseInt(label['Topic Number'].split(' ')[1])}`
NodeId(label) == TopicKey(label[TopicNumber][2])

\* the click handler of the node of topicLabels[n]:
\* setSelectedNode(d.id === selectedNode ? null : d.id), then the effect
ClickNode(n) ==
    /\ pc = "rendered"
    /\ data # Null
    /\ resizeListeners["TopicNetwork"] < MaxListeners
    /\ selected' = [selected EXCEPT
                        !["TopicNetwork"] = Toggled(@, NodeId(data[1].raw.topicLabels[n]))]
    /\ resizeListeners' = WithListenerOf("TopicNetwork")
    /\ UNCHANGED <<loaded, pc, decadeArray, view, highlightedTopic, topicNames,
                   evolutionTooltip, trendsTooltip>>

\* label["Topic Number"].replace(" ", "_")
BubbleId(label) == TopicKey(label[TopicNumber][2])

\* the click handler of the bubble of topicLabels[n]: setSelectedTopic(newSelectedTopic);
\* React calls the function the effect returned, then the effect
ClickBubble(n) ==
    /\ pc = "rendered"
    /\ data # Null
    /\ selected' = [selected EXCEPT
                        !["TopicOverview"] = Toggled(@, BubbleId(data[1].raw.topicLabels[n]))]
    /\ resizeListeners' =
           [resizeListeners EXCEPT !["TopicOverview"] = (@ - 1) + 1]
    /\ UNCHANGED <<loaded, pc, decadeArray, view, highlightedTopic, topicNames,
                   evolutionTooltip, trendsTooltip>>

\* React removes the charts: it calls the function the last effect of each returned,
\* which only the effect of TopicOverview does, and only when data was there
Unmount ==
    /\ pc = "rendered"
    /\ resizeListeners' =
           IF data = Null THEN resizeListeners
           ELSE [resizeListeners EXCEPT !["TopicOverview"] = @ - 1]
    /\ pc' = "unmounted"
    /\ UNCHANGED <<loaded, decadeArray, view, highlightedTopic, topicNames,
                   evolutionTooltip, trendsTooltip, selected>>

NextResize ==
    \/ RunTopicOverviewEffect
    \/ RunCreateVisualization
    \/ RunCreateNetworkVisualization
    \/ RunCreateWordCloud
    \/ RunCreateTemporalVisualization
    \/ \E n \in 1..Len(decadeArray) : ClickBar(n)
    \/ \E n \in 1..Len(topicKeywords) : ClickTopicButton(n)
    \/ \E n \in 1..Len(topicLabels) : ClickNode(n)
    \/ \E n \in 1..Len(topicLabels) : ClickBubble(n)
    \/ Unmount

SpecResize == InitCharts /\ [][NextResize]_vars

----------------------------------------------------------------------------
(* What the claims are stated with: the sums and counts of the document     *)
(* table, taken directly from the rows                                     *)

\* the sum of f[x] over the finite set S
RECURSIVE SumOver(_, _)
SumOver(S, f) ==
    IF S = {} THEN Zero
    ELSE LET x == CHOOSE y \in S : TRUE IN RAdd(f[x], SumOver(S \ {x}, f))

\* the count of f[x] over the finite set S, for natural numbers
RECURSIVE CountOver(_, _)
CountOver(S, f) ==
    IF S = {} THEN 0
    ELSE LET x == CHOOSE y \in S : TRUE IN f[x] + CountOver(S \ {x}, f)

\* a document's weight of topic t, a missing weight being 0
Weight(doc, t) == IF t \in DOMAIN doc THEN doc[t] ELSE Zero

\* a document's raw topic-weight sum
RawSum(doc) == SumOver(TopicKeySet \cap DOMAIN doc, doc)

\* the sum of the raw sums of docs[lo..hi]
RECURSIVE RawSumOfRange(_, _, _)
RawSumOfRange(docs, lo, hi) ==
    IF lo > hi THEN Zero
    ELSE IF lo = hi THEN RawSum(docs[lo])
    ELSE RAdd(RawSumOfRange(docs, lo, (lo + hi) \div 2),
              RawSumOfRange(docs, (lo + hi) \div 2 + 1, hi))

\* the mean raw sum of the first n documents
MeanRawSum(docs, n) == RDiv(RawSumOfRange(docs, 1, n), FromInt(n))

\* the mean raw sum of the first min(100, N) documents
SampleMean(docs) == MeanRawSum(docs, Min(SampleLimit, Len(docs)))

\* the normalized weight of topic t in doc under the decision flag
NormalizedWeight(doc, t, flag) ==
    IF flag /\ RawSum(doc) # Zero THEN RDiv(Weight(doc, t), RawSum(doc)) ELSE Weight(doc, t)

Ran(aggregator) == aggregator \in DOMAIN normalizationFlags

Documents == 1..Len(documentTopics)

\* the documents that carry the year of the property key
DocumentsOfYear(key) ==
    {d \in Documents : "Year" \in DOMAIN documentTopics[d]
                        /\ documentTopics[d]["Year"] = ParseInt(key)}

\* the documents with a non-blank author, the authors, their counts and first documents
HasAuthor(d) ==
    "Author" \in DOMAIN documentTopics[d] /\ Trim(documentTopics[d]["Author"]) # <<>>

AuthorOf(d) == Trim(documentTopics[d]["Author"])

AuthorNames == {AuthorOf(d) : d \in {e \in Documents : HasAuthor(e)}}

DocumentsBy(name) == {d \in Documents : HasAuthor(d) /\ AuthorOf(d) = name}

FirstDocumentBy(name) ==
    CHOOSE d \in DocumentsBy(name) : \A e \in DocumentsBy(name) : d <= e

ReturnedNames == {topAuthors[i].name : i \in 1..Len(topAuthors)}

----------------------------------------------------------------------------
(* C1 *)

\* C1: for every non-empty document table, the normalization flag is true iff the
\* mean raw topic-weight sum of the first min(100, N) documents is strictly below
\* 0.95 (exactly 0.95 gives false; documents after the first 100 have no influence)
C1_FlagIffSampleMeanBelowThreshold ==
    documentTopics # <<>> =>
        \A a \in DOMAIN normalizationFlags :
            normalizationFlags[a] = RLess(SampleMean(documentTopics), Threshold)

\* a table of more than 100 documents whose sample mean is exactly 0.95 and whose
\* overall mean is below it: both aggregators have decided false
C1_Witness ==
    /\ Ran("aggregateBooksByYear") /\ Ran("getTopAuthors")
    /\ Len(documentTopics) > SampleLimit
    /\ SampleMean(documentTopics) = Threshold
    /\ RLess(MeanRawSum(documentTopics, Len(documentTopics)), Threshold)
    /\ ~normalizationFlags["aggregateBooksByYear"]
    /\ ~normalizationFlags["getTopAuthors"]

----------------------------------------------------------------------------
(* C2 *)

\* C2: the four aggregators decide the same normalization flag, and the vector of
\* every document is normalized (or not) by that one decision
C2_OneNormalizationDecision ==
    /\ \A a, b \in DOMAIN normalizationFlags : normalizationFlags[a] = normalizationFlags[b]
    /\ Ran("calculateTopicCorrelations") =>
           \A d \in Documents : \A i \in 1..NumTopics :
               normalizedDocs[d][i] =
                   NormalizedWeight(documentTopics[d], TopicKey(i),
                                    normalizationFlags["aggregateBooksByYear"])

\* all four aggregators have run on a table whose sample mean is exactly 0.95 and
\* that holds documents with different raw sums
C2_Witness ==
    /\ \A a \in {"aggregateBooksByYear", "getTopAuthors", "calculateTopicEvolutionByYear",
                 "calculateTopicCorrelations"} : Ran(a)
    /\ documentTopics # <<>>
    /\ SampleMean(documentTopics) = Threshold
    /\ \E d, e \in Documents : RawSum(documentTopics[d]) # RawSum(documentTopics[e])

----------------------------------------------------------------------------
(* C3 *)

\* the sum of the 13 entries of a vector indexed by topic number
VectorSum(v) == SumOver(1..NumTopics, v)

\* the claim's three cases for the vector v of document doc under the decision flag
NormalizedAsClaimed(v, doc, flag) ==
    /\ (flag /\ RGreater(RawSum(doc), Zero)) => VectorSum(v) = One
    /\ (flag /\ RawSum(doc) = Zero) => \A i \in 1..NumTopics : v[i] = Zero
    /\ ~flag => \A i \in 1..NumTopics : v[i] = Weight(doc, TopicKey(i))

\* C3: under a true flag the normalized vector of a document with raw sum > 0 sums
\* to 1 and that of a document with raw sum 0 is all zeros; under a false flag it is
\* the raw weights with missing weights 0.  Stated of the vectors of
\* calculateTopicCorrelations and of what a document alone in its year adds to
\* aggregateBooksByYear
C3_NormalizedVector ==
    /\ Ran("calculateTopicCorrelations") =>
           \A d \in Documents :
               NormalizedAsClaimed(normalizedDocs[d], documentTopics[d],
                                   normalizationFlags["calculateTopicCorrelations"])
    /\ Ran("aggregateBooksByYear") =>
           \A key \in DOMAIN booksByYear :
               booksByYear[key].count = 1 =>
                   \A d \in DocumentsOfYear(key) :
                       NormalizedAsClaimed(
                           [i \in 1..NumTopics |->
                               booksByYear[key].topicDistribution[TopicKey(i)]],
                           documentTopics[d],
                           normalizationFlags["aggregateBooksByYear"])

\* the flag is true and the table holds a document with raw sum > 0 that is not yet
\* normalized and a document with raw sum 0
C3_Witness ==
    /\ Ran("calculateTopicCorrelations")
    /\ normalizationFlags["calculateTopicCorrelations"]
    /\ \E d \in Documents : /\ RGreater(RawSum(documentTopics[d]), Zero)
                            /\ RawSum(documentTopics[d]) # One
                            /\ VectorSum(normalizedDocs[d]) = One
    /\ \E d \in Documents : /\ RawSum(documentTopics[d]) = Zero
                            /\ \A i \in 1..NumTopics : normalizedDocs[d][i] = Zero

----------------------------------------------------------------------------
(* C4 *)

\* C4: the document counts of the years sum to the number of documents that have a
\* defined year, and the years of the result are exactly the years those documents carry
C4_CountsEveryDefinedYear ==
    Ran("aggregateBooksByYear") =>
        LET dated == {d \in Documents : "Year" \in DOMAIN documentTopics[d]}
        IN  /\ CountOver(DOMAIN booksByYear, [k \in DOMAIN booksByYear |-> booksByYear[k].count])
                   = Cardinality(dated)
            /\ {ParseInt(k) : k \in DOMAIN booksByYear}
                   = {documentTopics[d]["Year"] : d \in dated}
            /\ \A k \in DOMAIN booksByYear : booksByYear[k].count >= 1

----------------------------------------------------------------------------
(* C5 *)

\* C5: for every year of the result and every topic, the year's value is the sum of
\* the normalized weights of the documents of that year divided by the year's count
C5_YearMean ==
    Ran("aggregateBooksByYear") =>
        \A key \in DOMAIN booksByYear : \A t \in TopicKeySet :
            booksByYear[key].topicDistribution[t] =
                RDiv(SumOver(DocumentsOfYear(key),
                             [d \in DocumentsOfYear(key) |->
                                 NormalizedWeight(documentTopics[d], t,
                                                  normalizationFlags["aggregateBooksByYear"])]),
                     FromInt(booksByYear[key].count))

\* a year of two documents or more, one of them lacking a weight another has, under
\* a true flag
C5_Witness ==
    /\ Ran("aggregateBooksByYear")
    /\ normalizationFlags["aggregateBooksByYear"]
    /\ \E key \in DOMAIN booksByYear :
           /\ booksByYear[key].count >= 2
           /\ \E d, e \in DocumentsOfYear(key) : \E t \in TopicKeySet :
                  /\ t \in DOMAIN documentTopics[d]
                  /\ t \notin DOMAIN documentTopics[e]
                  /\ booksByYear[key].topicDistribution[t] # Zero

----------------------------------------------------------------------------
(* C6 *)

ExampleTable == <<ExampleFirstRow, ExampleSecondRow>>

\* the distribution with the given values of Topic_1 and Topic_2 and 0 elsewhere
TwoTopicDistribution(first, second) ==
    [t \in TopicKeySet |->
        IF t = "Topic_1" THEN first ELSE IF t = "Topic_2" THEN second ELSE Zero]

\* C6 as stated: on the two-document example the flag is false and the aggregate
\* of 1950 has Topic_1 = 0.45, Topic_2 = 0.35, every other topic 0
C6_ExampleAsStated ==
    (documentTopics = ExampleTable /\ Ran("aggregateBooksByYear")) =>
        /\ ~normalizationFlags["aggregateBooksByYear"]
        /\ DOMAIN booksByYear = {PropertyKey(1950)}
        /\ booksByYear[PropertyKey(1950)].topicDistribution
               = TwoTopicDistribution(<<9, 20>>, <<7, 20>>)

\* C6 amended: on the two-document example the sample mean is 0.8, the flag is true,
\* and the aggregate of 1950 has Topic_1 = 0.55, Topic_2 = 0.45, every other topic 0
C6_ExampleAmended ==
    (documentTopics = ExampleTable /\ Ran("aggregateBooksByYear")) =>
        /\ SampleMean(documentTopics) = <<4, 5>>
        /\ normalizationFlags["aggregateBooksByYear"]
        /\ DOMAIN booksByYear = {PropertyKey(1950)}
        /\ booksByYear[PropertyKey(1950)].count = 2
        /\ booksByYear[PropertyKey(1950)].topicDistribution
               = TwoTopicDistribution(<<11, 20>>, <<9, 20>>)

\* aggregateBooksByYear has run on the example
C6_Witness == documentTopics = ExampleTable /\ Ran("aggregateBooksByYear")

----------------------------------------------------------------------------
(* C7 *)

\* C7: getTopAuthors(docs, n) returns min(n, number of distinct non-blank authors)
\* authors, each with its document count, in non-increasing order of count, and no
\* author left out has more documents than a returned one
C7_TopAuthorsSortedAndCut ==
    Ran("getTopAuthors") =>
        /\ Len(topAuthors) = Min(topN, Cardinality(AuthorNames))
        /\ Cardinality(ReturnedNames) = Len(topAuthors)
        /\ \A i \in 1..Len(topAuthors) :
               /\ topAuthors[i].name \in AuthorNames
               /\ topAuthors[i].count = Cardinality(DocumentsBy(topAuthors[i].name))
               /\ i < Len(topAuthors) => topAuthors[i].count >= topAuthors[i + 1].count
               /\ \A a \in AuthorNames \ ReturnedNames :
                      topAuthors[i].count >= Cardinality(DocumentsBy(a))

\* more authors than n: the author returned is not the first one encountered, and the
\* author left out has fewer documents
C7_Witness ==
    /\ Ran("getTopAuthors")
    /\ Cardinality(AuthorNames) > topN
    /\ Len(topAuthors) = topN
    /\ FirstDocumentBy(topAuthors[1].name) > 1
    /\ \E a \in AuthorNames \ ReturnedNames :
           Cardinality(DocumentsBy(a)) < topAuthors[Len(topAuthors)].count

----------------------------------------------------------------------------
(* C8 *)

\* C8: authors with equal document count appear in the order in which their first
\* documents were encountered; when a tie straddles the cut at n, the author
\* encountered earlier is the one returned
C8_TiesInEncounterOrder ==
    Ran("getTopAuthors") =>
        /\ \A i, j \in 1..Len(topAuthors) :
               (i < j /\ topAuthors[i].count = topAuthors[j].count) =>
                   FirstDocumentBy(topAuthors[i].name) < FirstDocumentBy(topAuthors[j].name)
        /\ \A i \in 1..Len(topAuthors) : \A a \in AuthorNames \ ReturnedNames :
               Cardinality(DocumentsBy(a)) = topAuthors[i].count =>
                   FirstDocumentBy(topAuthors[i].name) < FirstDocumentBy(a)

\* two returned authors tie, and a third author with the same count is cut off
C8_Witness ==
    /\ Ran("getTopAuthors")
    /\ Len(topAuthors) = 2
    /\ topAuthors[1].count = topAuthors[2].count
    /\ \E a \in AuthorNames \ ReturnedNames :
           Cardinality(DocumentsBy(a)) = topAuthors[2].count

----------------------------------------------------------------------------
(* C9 and C10 *)

\* the property keys of the years of a decade
YearsOfDecade(decade) == {k \in DOMAIN booksByYear : DecadeOf(ParseInt(k)) = decade}

\* sum over the decade's years of count x mean of topic t, over the decade's count
WeightedDecadeMean(decade, t) ==
    RDiv(SumOver(YearsOfDecade(decade),
                 [k \in YearsOfDecade(decade) |->
                     RMul(FromInt(booksByYear[k].count), booksByYear[k].topicDistribution[t])]),
         FromInt(CountOver(YearsOfDecade(decade),
                           [k \in YearsOfDecade(decade) |-> booksByYear[k].count])))

\* C9: for every decade and every topic 1..13, Topic_1 included, the decade mean is
\* the sum over the decade's years of count x year mean, over the decade's count
C9_DecadeMeanEveryTopic ==
    pc = "rendered" =>
        \A n \in 1..Len(decadeArray) : \A t \in TopicKeySet :
            decadeArray[n].topicSums[t] = WeightedDecadeMean(decadeArray[n].decade, t)

\* the topic of lowest number among those of maximal weighted mean in the decade
ArgMaxTopic(decade) ==
    TopicKey(CHOOSE i \in 1..NumTopics :
        /\ \A j \in 1..NumTopics :
               ~RLess(WeightedDecadeMean(decade, TopicKey(i)),
                      WeightedDecadeMean(decade, TopicKey(j)))
        /\ \A j \in 1..(i - 1) :
               RLess(WeightedDecadeMean(decade, TopicKey(j)),
                     WeightedDecadeMean(decade, TopicKey(i))))

\* C10: the dominant topic of every decade is the topic of Topic_1..Topic_13 whose
\* count-weighted mean over the decade's years is maximal, the lowest id on a tie
C10_DominantTopicIsArgMax ==
    pc = "rendered" =>
        \A n \in 1..Len(decadeArray) :
            decadeArray[n].dominantTopic = ArgMaxTopic(decadeArray[n].decade)

----------------------------------------------------------------------------
(* C11 *)

\* the decade entries that list the year of the property key among their years
DecadesHolding(key) ==
    {n \in 1..Len(decadeArray) :
        \E y \in 1..Len(decadeArray[n].years) : decadeArray[n].years[y].year = ParseInt(key)}

\* the greatest multiple of ten that is at most year: floor(year/10)*10
FloorToTen(year) == year - (year % 10)

\* the property keys of the years decade .. decade + 9
YearsWithin(decade) == {k \in DOMAIN booksByYear : ParseInt(k) \in decade..(decade + 9)}

\* C11: every yearly aggregate is assigned to exactly one decade, floor(year/10)*10;
\* each decade's totalBooks is the sum of the document counts of its years (so the
\* totals of the decades add up to the counts of the years); the decade sequence is
\* strictly ascending with one entry per decade that contains at least one year
C11_DecadesPartitionTheYears ==
    pc = "rendered" =>
        /\ \A k \in DOMAIN booksByYear :
               /\ Cardinality(DecadesHolding(k)) = 1
               /\ \A n \in DecadesHolding(k) :
                      decadeArray[n].decade = FloorToTen(ParseInt(k))
        /\ \A n \in 1..Len(decadeArray) :
               /\ YearsWithin(decadeArray[n].decade) # {}
               /\ Len(decadeArray[n].years) = Cardinality(YearsWithin(decadeArray[n].decade))
               /\ decadeArray[n].totalBooks =
                      CountOver(YearsWithin(decadeArray[n].decade),
                                [k \in YearsWithin(decadeArray[n].decade) |->
                                    booksByYear[k].count])
        /\ CountOver(1..Len(decadeArray), [n \in 1..Len(decadeArray) |-> decadeArray[n].totalBooks])
               = CountOver(DOMAIN booksByYear, [k \in DOMAIN booksByYear |-> booksByYear[k].count])
        /\ \A n \in 1..(Len(decadeArray) - 1) :
               decadeArray[n].decade < decadeArray[n + 1].decade
        /\ {decadeArray[n].decade : n \in 1..Len(decadeArray)}
               = {FloorToTen(ParseInt(k)) : k \in DOMAIN booksByYear}

\* three years in two decades, the later decade met first in the table: one decade
\* holds two years, one of them not a multiple of ten
C11_Witness ==
    /\ pc = "rendered"
    /\ Len(decadeArray) = 2
    /\ Len(decadeArray[2].years) = 2
    /\ decadeArray[2].years[2].year # decadeArray[2].decade
    /\ decadeArray[2].totalBooks = 2
    /\ documentTopics[1]["Year"] > decadeArray[1].decade + 9

----------------------------------------------------------------------------
(* C12, C13 and C14: the correlation matrix, stated with the population      *)
(* moments of the normalized weights taken directly from the rows           *)

\* the entry 1 and the test for an undefined entry
SurdOne == [sign |-> 1, square |-> One]

SurdIsNaN(s) == IsNaN(s.square)

\* column t of the normalized weights: one value per document
NormalizedColumns ==
    LET flag == RLess(SampleMean(documentTopics), Threshold)
    IN  Eager([i \in 1..NumTopics |->
            Eager([d \in Documents |->
                NormalizedWeight(documentTopics[d], TopicKey(i), flag)])])

\* the sum of f over the documents lo..hi, half by half
RECURSIVE SumBetween(_, _, _)
SumBetween(lo, hi, f) ==
    IF lo > hi THEN Zero
    ELSE IF lo = hi THEN f[lo]
    ELSE LET mid == (lo + hi) \div 2
         IN  RAdd(SumBetween(lo, mid, f), SumBetween(mid + 1, hi, f))

SumOverDocuments(f) == SumBetween(1, Len(documentTopics), f)

PopulationMean(column) == RDiv(SumOverDocuments(column), FromInt(Len(documentTopics)))

\* the columns less their means
CentredColumns(columns) ==
    Eager([i \in 1..NumTopics |->
        LET mean == PopulationMean(columns[i])
        IN  Eager([d \in Documents |-> RSub(columns[i][d], mean)])])

\* the mean of (a - mean a)(b - mean b) over the documents, from the centred columns
PopulationCovariance(centredA, centredB) ==
    RDiv(SumOverDocuments(Eager([d \in Documents |-> RMul(centredA[d], centredB[d])])),
         FromInt(Len(documentTopics)))

\* calculateTopicCorrelations has just returned its matrix
CorrelationsReturned == pc = "prepareTopicKeywords"

\* the topic has nonzero variance: two documents differ in it
Varies(column) == \E d, e \in Documents : column[d] # column[e]

C14_WitnessEmptyTable ==
    /\ CorrelationsReturned
    /\ documentTopics = <<>>
    /\ \A i, j \in 1..13 : topicCorrelations[i][j] = SurdZero

----------------------------------------------------------------------------
(* C15 *)

\* enhanceTopicKeywords has just returned
KeywordsReturned == pc = "done"

\* the base keywords of topic n: the non-empty cells of its row of the NMF table
BaseKeywords(n) == SelectSeq(nmfTopics[n + 1], LAMBDA cell : cell # "")

NoWordTwice(words) == \A a, b \in 1..Len(words) : words[a] = words[b] => a = b

\* the words the wordlist has for topic n that are not base keywords, each once,
\* in the order the wordlist first shows them
RECURSIVE FirstSeenUpTo(_, _)
FirstSeenUpTo(n, k) ==
    IF k = 0 THEN <<>>
    ELSE LET before == FirstSeenUpTo(n, k - 1)
             item == expandedWordlist[k]
         IN  IF /\ item.topic_id = n
                /\ \A b \in 1..Len(BaseKeywords(n)) : BaseKeywords(n)[b] # item.word
                /\ \A b \in 1..Len(before) : before[b] # item.word
                 THEN Append(before, item.word)
             ELSE before

FirstSeen(n) == FirstSeenUpTo(n, Len(expandedWordlist))

\* C15: each keyword list returned by enhanceTopicKeywords contains no word twice
\* (case-sensitive), begins with the base keywords in their original order, and
\* continues with the newly added words in the order the wordlist first shows them
C15_KeywordsMergedWithoutDuplicates ==
    KeywordsReturned =>
        \A n \in 1..Len(enhancedTopicKeywords) :
            /\ NoWordTwice(enhancedTopicKeywords[n].keywords)
            /\ enhancedTopicKeywords[n].keywords = BaseKeywords(n) \o FirstSeen(n)

\* the same with the first conjunct required of the lists whose base keywords hold
\* no word twice: the merge itself never adds a word that is there
KeywordsMergedOntoDistinctBase ==
    KeywordsReturned =>
        \A n \in 1..Len(enhancedTopicKeywords) :
            /\ NoWordTwice(BaseKeywords(n)) => NoWordTwice(enhancedTopicKeywords[n].keywords)
            /\ enhancedTopicKeywords[n].keywords = BaseKeywords(n) \o FirstSeen(n)

\* two words added to two distinct base keywords, a third offered twice
KeywordsMergedOntoDistinctBaseWitness ==
    /\ KeywordsReturned
    /\ Len(BaseKeywords(1)) = 2
    /\ NoWordTwice(BaseKeywords(1))
    /\ Len(expandedWordlist) = 2
    /\ expandedWordlist[1].word = BaseKeywords(1)[2]
    /\ Len(enhancedTopicKeywords[1].keywords) = 3

----------------------------------------------------------------------------
(* C16 *)

\* C16: every aggregation function leaves its inputs unchanged: after
\* aggregateBooksByYear, getTopAuthors, calculateTopicEvolutionByYear,
\* calculateTopicCorrelations and enhanceTopicKeywords return, the document table
\* and the base topic list passed in (the keyword list of each base topic included)
\* hold the values they held before the call
C16_InputsUnchanged ==
    [][/\ documentTopics' = documentTopics
       /\ expandedWordlist' = expandedWordlist
       /\ pc = "enhanceTopicKeywords" => topicKeywords' = topicKeywords]_vars

\* every step that is not the call of enhanceTopicKeywords leaves the document
\* table, the wordlist and the base topic list as they were
InputsUnchangedButByEnhance ==
    [][/\ documentTopics' = documentTopics
       /\ expandedWordlist' = expandedWordlist
       /\ pc \notin {"prepareTopicKeywords", "enhanceTopicKeywords"} =>
              topicKeywords' = topicKeywords]_vars

----------------------------------------------------------------------------
(* C17 and C18 *)

\* C17: if loading any one of the four data files fails, the application enters a
\* loading/error state and stays in it from then on: in no later state does it
\* leave that state and render the chart sections
C17_LoadFailureKeepsLoadingState ==
    promise = "rejected" => Rendered = LoadingContainer

\* until fetchData handles the rejection the loading container is what App shows
LoadingWhileFetching ==
    pc \notin {"mounted", "TopicEvolution", "TopicNetwork", "KeywordsCloud", "TemporalTrends",
               "rendered", "unmounted"}
        => Rendered = LoadingContainer

RawNames == {"topicLabels", "nmfTopics", "documentTopics", "expandedWordlist"}

ProcessedNames ==
    {"booksByYear", "topAuthors", "topicEvolution", "topicCorrelations", "topicKeywords"}

AggregatorNames ==
    {"aggregateBooksByYear", "getTopAuthors", "calculateTopicEvolutionByYear",
     "calculateTopicCorrelations"}

\* C18: loadAllData is all-or-nothing: it returns a result holding all four raw
\* tables and all five processed datasets, or it fails with one error; when a loader
\* fails no aggregator is run and the data of App never holds a partial dataset: it
\* stays null
C18_AllOrNothing ==
    /\ promise \in {"pending", "fulfilled", "rejected"}
    /\ promise = "fulfilled" <=> data # Null
    /\ data # Null =>
           /\ Len(data) = 1
           /\ DOMAIN data[1] = {"raw", "processed"}
           /\ DOMAIN data[1].raw = RawNames
           /\ DOMAIN data[1].processed = ProcessedNames
           /\ data[1].raw.topicLabels = topicLabels
           /\ data[1].raw.nmfTopics = nmfTopics
           /\ data[1].raw.documentTopics = documentTopics
           /\ data[1].raw.expandedWordlist = expandedWordlist
           /\ DOMAIN normalizationFlags = AggregatorNames
           /\ data[1].processed.booksByYear = booksByYear
           /\ data[1].processed.topAuthors = topAuthors
           /\ data[1].processed.topicEvolution = topicEvolution
           /\ data[1].processed.topicCorrelations = topicCorrelations
           /\ DOMAIN data[1].processed.topicCorrelations = 1..13
           /\ data[1].processed.topicKeywords = enhancedTopicKeywords
           /\ Len(data[1].processed.topicKeywords) = Len(nmfTopics) - 1
    /\ promise = "rejected" =>
           /\ data = Null
           /\ normalizationFlags = <<>>
           /\ booksByYear = <<>> /\ topAuthors = <<>> /\ topicEvolution = <<>>
           /\ topicCorrelations = <<>> /\ topicKeywords = <<>>
           /\ enhancedTopicKeywords = <<>> /\ decadeArray = <<>>

\* a loader has failed, fetchData has handled the error and the effect of
\* TemporalTrends has run: data is still null
C18_Witness ==
    /\ promise = "rejected"
    /\ pc = "rendered"
    /\ loading = FALSE
    /\ data = Null
    /\ documentTopics # <<>>

\* the load succeeded on a table with documents: data holds the whole result
C18_WitnessLoaded ==
    /\ promise = "fulfilled"
    /\ pc = "rendered"
    /\ data # Null
    /\ DOMAIN data[1].processed.booksByYear # {}

----------------------------------------------------------------------------
(* C19 *)

\* aggregateBooksByYear has just returned
ByYearReturned == pc = "getTopAuthors"

\* the document has no topic weight at all
Weightless(doc) == TopicKeySet \cap DOMAIN doc = {}

\* the table without its document d
WithoutDocument(d) ==
    [e \in 1..(Len(documentTopics) - 1) |->
        IF e < d THEN documentTopics[e] ELSE documentTopics[e + 1]]

\* under the flag, the document d adds 1 to the count of its year and 0 to every
\* topic sum of that year, and leaves the other years alone
AddsOnlyToCount(d, flag) ==
    LET with == ByYearSums(documentTopics, Len(documentTopics), flag)
        without == ByYearSums(WithoutDocument(d), Len(documentTopics) - 1, flag)
        key == PropertyKey(documentTopics[d]["Year"])
    IN  /\ DOMAIN with = DOMAIN without \cup {key}
        /\ \A k \in DOMAIN without \ {key} : with[k] = without[k]
        /\ key \in DOMAIN with
        /\ with[key].count = (IF key \in DOMAIN without THEN without[key].count ELSE 0) + 1
        /\ \A t \in TopicKeySet :
               with[key].topicDistribution[t] =
                   IF key \in DOMAIN without THEN without[key].topicDistribution[t] ELSE Zero

\* C19: a document that has a year but no topic weight at all increases its year's
\* document count by exactly 1 and adds 0 to every topic sum of that year, under
\* either value of the normalization flag
C19_WeightlessDocumentCounted ==
    ByYearReturned =>
        \A d \in Documents :
            ("Year" \in DOMAIN documentTopics[d] /\ Weightless(documentTopics[d])) =>
                \A flag \in BOOLEAN : AddsOnlyToCount(d, flag)

\* the same of the weightless documents whose year is not 0
WeightlessDocumentOfNonzeroYearCounted ==
    ByYearReturned =>
        \A d \in Documents :
            (/\ "Year" \in DOMAIN documentTopics[d]
             /\ documentTopics[d]["Year"] # 0
             /\ Weightless(documentTopics[d])) =>
                \A flag \in BOOLEAN : AddsOnlyToCount(d, flag)

\* a weightless document in a year that has a document with weights
WeightlessDocumentOfNonzeroYearWitness ==
    /\ ByYearReturned
    /\ \E d, e \in Documents :
           /\ "Year" \in DOMAIN documentTopics[d] /\ "Year" \in DOMAIN documentTopics[e]
           /\ documentTopics[d]["Year"] = documentTopics[e]["Year"]
           /\ documentTopics[d]["Year"] # 0
           /\ Weightless(documentTopics[d])
           /\ ~Weightless(documentTopics[e])
           /\ booksByYear[PropertyKey(documentTopics[d]["Year"])].count = 2

----------------------------------------------------------------------------
(* C20 *)

Lacks(doc, field) == field \notin DOMAIN doc

\* the document d is counted in the entry of its year
CountsTowardYear(d) ==
    LET key == PropertyKey(documentTopics[d]["Year"])
    IN  /\ key \in DOMAIN booksByYear
        /\ booksByYear[key].count = Cardinality(DocumentsOfYear(key))

\* the document d is counted in the entry of its author
CountsTowardAuthor(d) ==
    \E i \in 1..Len(topAuthors) :
        /\ topAuthors[i].name = AuthorOf(d)
        /\ topAuthors[i].count = Cardinality(DocumentsBy(AuthorOf(d)))

\* every document has its row of normalized weights, and the matrix is the one of
\* the moments over all the documents
CountsTowardCorrelations ==
    LET columns == NormalizedColumns
        centred == CentredColumns(columns)
    IN  /\ Len(normalizedDocs) = Len(documentTopics)
        /\ \A d \in Documents : \A i \in 1..13 : normalizedDocs[d][i] = columns[i][d]
        /\ \A i, j \in 1..13 :
               (Varies(columns[i]) /\ Varies(columns[j])) =>
                   LET covariance == PopulationCovariance(centred[i], centred[j])
                   IN  /\ topicCorrelations[i][j].sign = Sign(covariance[1])
                       /\ topicCorrelations[i][j].square =
                              RDiv(RMul(covariance, covariance),
                                   RMul(PopulationCovariance(centred[i], centred[i]),
                                        PopulationCovariance(centred[j], centred[j])))

SomeDocumentLacks(field) == \E d \in Documents : Lacks(documentTopics[d], field)

\* C20: a document lacking Year is excluded from the yearly aggregates only and a
\* document lacking Author from the author aggregates only: a document without Year
\* still counts toward its author's aggregate and toward the correlation matrix, a
\* document without Author still counts toward its year and the correlation matrix
C20_MissingFieldExcludesFromOneAggregate ==
    /\ Ran("aggregateBooksByYear") =>
           \A d \in Documents :
               /\ (Lacks(documentTopics[d], "Author") /\ ~Lacks(documentTopics[d], "Year"))
                      => CountsTowardYear(d)
               /\ Lacks(documentTopics[d], "Year") =>
                      \A k \in DOMAIN booksByYear :
                          booksByYear[k].count = Cardinality(DocumentsOfYear(k))
    /\ Ran("getTopAuthors") =>
           \A d \in Documents :
               /\ (Lacks(documentTopics[d], "Year") /\ HasAuthor(d)) => CountsTowardAuthor(d)
               /\ Lacks(documentTopics[d], "Author") =>
                      \A i \in 1..Len(topAuthors) :
                          topAuthors[i].count = Cardinality(DocumentsBy(topAuthors[i].name))
    /\ (CorrelationsReturned /\ (SomeDocumentLacks("Year") \/ SomeDocumentLacks("Author")))
           => CountsTowardCorrelations

\* the same, the documents of the year 0 left aside
MissingFieldExcludesFromOneAggregateButYearZero ==
    /\ Ran("aggregateBooksByYear") =>
           \A d \in Documents :
               /\ (/\ Lacks(documentTopics[d], "Author")
                   /\ ~Lacks(documentTopics[d], "Year")
                   /\ documentTopics[d]["Year"] # 0) => CountsTowardYear(d)
               /\ Lacks(documentTopics[d], "Year") =>
                      \A k \in DOMAIN booksByYear :
                          booksByYear[k].count = Cardinality(DocumentsOfYear(k))
    /\ Ran("getTopAuthors") =>
           \A d \in Documents :
               /\ (Lacks(documentTopics[d], "Year") /\ HasAuthor(d)) => CountsTowardAuthor(d)
               /\ Lacks(documentTopics[d], "Author") =>
                      \A i \in 1..Len(topAuthors) :
                          topAuthors[i].count = Cardinality(DocumentsBy(topAuthors[i].name))
    /\ (CorrelationsReturned /\ (SomeDocumentLacks("Year") \/ SomeDocumentLacks("Author")))
           => CountsTowardCorrelations

\* a table of a document without Year, a document without Author and a third
MissingFieldWitness ==
    /\ CorrelationsReturned
    /\ Len(documentTopics) = 3
    /\ Lacks(documentTopics[1], "Year") /\ HasAuthor(1)
    /\ Lacks(documentTopics[2], "Author") /\ documentTopics[2]["Year"] # 0
    /\ CountsTowardAuthor(1)
    /\ CountsTowardYear(2)
    /\ \E i \in 1..13 : topicCorrelations[i][i] = SurdOne

----------------------------------------------------------------------------
(* C21 *)

\* the titles of the documents of the author that have one
TitlesBy(name) ==
    {documentTopics[d][BookTitle] :
        d \in {e \in DocumentsBy(name) :
                  BookTitle \in DOMAIN documentTopics[e] /\ documentTopics[e][BookTitle] # <<>>}}

\* C21: getTopAuthors skips the documents whose Author is absent or blank after
\* trimming and groups the others by trimmed name: with n at least the number of
\* authors the counts of the returned authors sum to the number of documents with a
\* non-blank author; bookCount is the number of distinct titles, at most the
\* document count, and documents without a title add nothing to it
C21_AuthorsGroupedByTrimmedName ==
    Ran("getTopAuthors") =>
        /\ ReturnedNames \subseteq AuthorNames
        /\ \A i, j \in 1..Len(topAuthors) : topAuthors[i].name = topAuthors[j].name => i = j
        /\ topN >= Cardinality(AuthorNames) =>
               /\ ReturnedNames = AuthorNames
               /\ CountOver(1..Len(topAuthors), [i \in 1..Len(topAuthors) |-> topAuthors[i].count])
                      = Cardinality({d \in Documents : HasAuthor(d)})
        /\ \A i \in 1..Len(topAuthors) :
               /\ topAuthors[i].count = Cardinality(DocumentsBy(topAuthors[i].name))
               /\ topAuthors[i].bookCount <= topAuthors[i].count
               /\ topAuthors[i].bookCount = Cardinality(TitlesBy(topAuthors[i].name))

\* a padded and a plain spelling of one author, one of the two documents untitled,
\* and a document of blank author that is skipped
C21_Witness ==
    /\ Ran("getTopAuthors")
    /\ Len(documentTopics) = 3
    /\ Len(topAuthors) = 1
    /\ topAuthors[1].count = 2
    /\ topAuthors[1].bookCount = 1
    /\ \E d, e \in DocumentsBy(topAuthors[1].name) :
           documentTopics[d]["Author"] # documentTopics[e]["Author"]
    /\ \E d \in Documents :
           "Author" \in DOMAIN documentTopics[d] /\ ~HasAuthor(d)


----------------------------------------------------------------------------
(* C22: the moments of the correlation matrix are taken over all documents  *)

\* the sample of the normalization check is a proper part of the table
BeyondTheSample == Len(documentTopics) > SampleLimit

\* C22: the means, covariances and standard deviations of calculateTopicCorrelations
\* are taken over every document of the collection, those after the first 100 and
\* those without year or author included, each sum divided by the number of
\* documents: entry (i,j) is the population covariance of the topics i and j over the
\* product of their population standard deviations when both deviations are > 0
C22_MomentsOverEveryDocument ==
    CorrelationsReturned =>
        LET columns == NormalizedColumns
            centred == CentredColumns(columns)
        IN  /\ Len(normalizedDocs) = Len(documentTopics)
            /\ \A i, j \in 1..13 :
                   LET covariance == PopulationCovariance(centred[i], centred[j])
                       varianceI == PopulationCovariance(centred[i], centred[i])
                       varianceJ == PopulationCovariance(centred[j], centred[j])
                   IN  (RGreater(varianceI, Zero) /\ RGreater(varianceJ, Zero)) =>
                           /\ topicCorrelations[i][j].sign = Sign(covariance[1])
                           /\ topicCorrelations[i][j].square =
                                  RDiv(RMul(covariance, covariance),
                                       RMul(varianceI, varianceJ))

\* the first 100 documents are alike; a document after them, without year and author,
\* makes two topics vary, and the entry of the two is not 0
C22_Witness ==
    /\ CorrelationsReturned
    /\ BeyondTheSample
    /\ \A d \in 1..SampleLimit : documentTopics[d] = documentTopics[1]
    /\ \E d \in Documents :
           /\ d > SampleLimit
           /\ Lacks(documentTopics[d], "Year")
           /\ Lacks(documentTopics[d], "Author")
           /\ Has(documentTopics[d], "Topic_2")
    /\ topicCorrelations[1][2].sign = -1
    /\ topicCorrelations[2][3].sign = 1


----------------------------------------------------------------------------
(* C23: words for a topic that is not there                                 *)

\* the ids of the topics handed to enhanceTopicKeywords
BaseIds == {topicKeywords[i].id : i \in 1..Len(topicKeywords)}

\* the words the wordlist holds for the topic id
WordsFor(id) ==
    {expandedWordlist[k].word : k \in {n \in 1..Len(expandedWordlist) :
                                           expandedWordlist[n].topic_id = id}}

\* C23: enhanceTopicKeywords ignores the pairs whose topic id matches no base topic:
\* the result has exactly the base topics, with the same ids and names in the same
\* order, every word added to a topic is one the wordlist holds for that topic's id,
\* and the call ends without an error
C23_UnmatchedTopicIdsIgnored ==
    [][pc = "enhanceTopicKeywords" =>
           /\ pc' = "done"
           /\ Len(enhancedTopicKeywords') = Len(topicKeywords)
           /\ \A i \in 1..Len(topicKeywords) :
                  /\ enhancedTopicKeywords'[i].id = topicKeywords[i].id
                  /\ enhancedTopicKeywords'[i].name = topicKeywords[i].name
                  /\ \A k \in 1..Len(enhancedTopicKeywords'[i].keywords) :
                         IF k <= Len(topicKeywords[i].keywords)
                             THEN enhancedTopicKeywords'[i].keywords[k]
                                      = topicKeywords[i].keywords[k]
                         ELSE enhancedTopicKeywords'[i].keywords[k]
                                  \in WordsFor(topicKeywords[i].id)]_vars

\* the wordlist held a word for a topic id that no base topic has, and another word
\* was merged
C23_Witness ==
    /\ KeywordsReturned
    /\ \E k \in 1..Len(expandedWordlist) :
           /\ expandedWordlist[k].word # ""
           /\ \A i \in 1..Len(enhancedTopicKeywords) :
                  enhancedTopicKeywords[i].id # expandedWordlist[k].topic_id
    /\ \E i \in 1..Len(enhancedTopicKeywords) :
           Len(enhancedTopicKeywords[i].keywords) > Len(FilterBoolean(nmfTopics[i + 1]))
    /\ Len(enhancedTopicKeywords) = Len(nmfTopics) - 1


----------------------------------------------------------------------------
(* C24: a topic without a label                                             *)

\* no row of the label table has the "Topic Number" `Topic ${n}`
Unlabelled(n) ==
    \A i \in 1..Len(topicLabels) :
        TopicNumber \in DOMAIN topicLabels[i] => topicLabels[i][TopicNumber] # <<"Topic ", n>>

\* the names shown for the unlabelled topics, wherever a chart has looked one up, are
\* made by the operator: the keywords' names apart, which C24 and the code agree on
ChartNamesOfUnlabelled(Synthetic(_)) ==
    /\ topicNames # <<>> =>
           \A n \in 1..13 : Unlabelled(n) => topicNames[n] = Synthetic(n)
    /\ evolutionTooltip # <<>> =>
           \A n \in 1..13 :
               (evolutionTooltip[1].key = TopicKey(n) /\ Unlabelled(n))
                   => evolutionTooltip[1].topicName = Synthetic(n)
    /\ trendsTooltip # <<>> =>
           \A n \in 1..13 :
               Unlabelled(n) =>
                   /\ trendsTooltip[1].dominantTopic = TopicKey(n)
                          => trendsTooltip[1].topicName = Synthetic(n)
                   /\ \A k \in 1..Len(trendsTooltip[1].topTopics) :
                          trendsTooltip[1].topTopics[k].topic = TopicKey(n)
                              => trendsTooltip[1].topTopics[k].name = Synthetic(n)

\* the name `Topic ${n}`, with a space, and the key `Topic_${n}`
SpacedName(n) == <<"Topic ", n>>

UnderscoredKey(n) == <<"Topic_", n>>

KeywordNamesOfUnlabelled ==
    \A i \in 1..Len(topicKeywords) :
        Unlabelled(topicKeywords[i].id) =>
            topicKeywords[i].name = SpacedName(topicKeywords[i].id)

\* C24: wherever a topic number is joined to the label table (prepareTopicKeywords,
\* the dominant-topic and top-themes lookups of TemporalTrends, the legend and the
\* tooltips of TopicEvolution) a topic n without a label row whose "Topic Number" is
\* exactly "Topic n" receives the synthetic name "Topic n"
C24_UnlabelledTopicNamedTopicN ==
    /\ KeywordNamesOfUnlabelled
    /\ ChartNamesOfUnlabelled(SpacedName)

\* what the charts show instead is the key of the topic, "Topic_n"
UnlabelledTopicNamedByItsKeyInCharts ==
    /\ KeywordNamesOfUnlabelled
    /\ ChartNamesOfUnlabelled(UnderscoredKey)

\* both tooltips and the legend show names of unlabelled topics
UnlabelledTopicNamedByItsKeyWitness ==
    /\ topicNames # <<>>
    /\ evolutionTooltip # <<>>
    /\ trendsTooltip # <<>>
    /\ Len(topicLabels) = 1
    /\ Unlabelled(TopicNumberOf(evolutionTooltip[1].key))
    /\ Unlabelled(TopicNumberOf(trendsTooltip[1].dominantTopic))
    /\ Len(topicKeywords) = 2


----------------------------------------------------------------------------
(* C25: the pairs read from the rows of the wordlist                        *)

\* loadExpandedWordlist has just returned
WordlistReturned == pc = "aggregateBooksByYear"

\* the cell is a bare integer or a string ending in digits
EncodesTopicNumber(cell) == cell # <<>> /\ cell[Len(cell)] \in DOMAIN Digit

\* the number such a cell encodes: that of the digits it ends with
EncodedTopicNumber(cell) ==
    LET from == CHOOSE i \in 1..Len(cell) :
                    /\ \A k \in i..Len(cell) : cell[k] \in DOMAIN Digit
                    /\ i > 1 => cell[i - 1] \notin DOMAIN Digit
    IN  DigitsValue(SubSeq(cell, from, Len(cell)))

NonBlank(cell) == \E i \in 1..Len(cell) : cell[i] \notin WhiteSpace

\* the cell from its first to its last character that is not white space
Trimmed(cell) ==
    LET inked == {i \in 1..Len(cell) : cell[i] \notin WhiteSpace}
        first == CHOOSE i \in inked : \A k \in inked : i <= k
        last == CHOOSE i \in inked : \A k \in inked : k <= i
    IN  Join(SubSeq(cell, first, last))

\* the pairs of the rows up to the n-th, row by row and cell by cell
RECURSIVE PairsOfCells(_, _)
PairsOfCells(row, n) ==
    IF n <= 1 THEN <<>>
    ELSE PairsOfCells(row, n - 1) \o
         (IF NonBlank(row[n])
              THEN <<[topic_id |-> EncodedTopicNumber(row[1]), word |-> Trimmed(row[n])]>>
          ELSE <<>>)

RECURSIVE PairsOfRows(_, _)
PairsOfRows(rows, n) ==
    IF n = 0 THEN <<>>
    ELSE PairsOfRows(rows, n - 1) \o
         (IF EncodesTopicNumber(rows[n][1]) THEN PairsOfCells(rows[n], Len(rows[n])) ELSE <<>>)

\* C25: loadExpandedWordlist turns every row whose first cell is a bare integer or a
\* string ending in digits, whatever the row's position in the file, into one
\* (topic_id, word) pair per non-blank remaining cell, with topic_id that number and
\* the word trimmed, in row-then-column order; a row whose first cell encodes no
\* topic number gives no pair
C25_RowsWithTopicNumberGivePairs ==
    WordlistReturned => expandedWordlist = PairsOfRows(wordlistRows, Len(wordlistRows))

\* the rows the function reads otherwise: a first row whose first cell holds "topic",
\* a first cell that encodes 0, a first cell that begins with digits and ends otherwise
ReadOtherwise(rows) ==
    \/ rows # <<>> /\ IncludesText(LowerCase(rows[1][1]), <<"t", "o", "p", "i", "c">>)
    \/ \E n \in 1..Len(rows) :
           \/ EncodesTopicNumber(rows[n][1]) /\ EncodedTopicNumber(rows[n][1]) = 0
           \/ /\ ~EncodesTopicNumber(rows[n][1])
              /\ rows[n][1] # <<>>
              /\ rows[n][1][1] \in DOMAIN Digit

\* the statement holds of all other files
RowsWithTopicNumberGivePairsButReadOtherwise ==
    (WordlistReturned /\ ~ReadOtherwise(wordlistRows))
        => expandedWordlist = PairsOfRows(wordlistRows, Len(wordlistRows))

\* a row "Topic 2" after the first gave its pairs, a padded word among them
RowsWithTopicNumberGivePairsWitness ==
    /\ WordlistReturned
    /\ ~ReadOtherwise(wordlistRows)
    /\ Len(wordlistRows) = 2
    /\ Len(wordlistRows[2][1]) = 7
    /\ Len(wordlistRows[2]) = 5
    /\ expandedWordlist =
           <<[topic_id |-> 1, word |-> "el"], [topic_id |-> 2, word |-> "jer"],
             [topic_id |-> 2, word |-> "el"]>>


----------------------------------------------------------------------------
(* C26: the two yearly aggregations                                         *)

\* calculateTopicEvolutionByYear has run, after aggregateBooksByYear
EvolutionReturned == Ran("calculateTopicEvolutionByYear")

\* C26: calculateTopicEvolutionByYear and aggregateBooksByYear agree: they report
\* the same set of years, and for each year the same document count and the same
\* mean value of each of the 13 topics
C26_YearlyAggregationsAgree ==
    EvolutionReturned =>
        /\ {topicEvolution[i].year : i \in 1..Len(topicEvolution)}
               = {ParseInt(key) : key \in DOMAIN booksByYear}
        /\ \A i \in 1..Len(topicEvolution) :
               \A key \in DOMAIN booksByYear :
                   ParseInt(key) = topicEvolution[i].year =>
                       /\ topicEvolution[i].documentCount = booksByYear[key].count
                       /\ \A n \in 1..13 :
                              topicEvolution[i].topicDistribution[TopicKey(n)]
                                  = booksByYear[key].topicDistribution[TopicKey(n)]

\* two years, one of them with two documents whose weights were normalized, and a
\* document without a year
C26_Witness ==
    /\ EvolutionReturned
    /\ Len(topicEvolution) = 2
    /\ \E i \in 1..2 : topicEvolution[i].documentCount = 2
    /\ normalizationFlags["calculateTopicEvolutionByYear"]
    /\ Len(documentTopics) = 3


----------------------------------------------------------------------------
(* C27: the order of the entries of topicEvolution                          *)

\* the years the documents carry, a year 0 being read as no year
ObservedYears ==
    {documentTopics[d]["Year"] : d \in {e \in Documents :
        "Year" \in DOMAIN documentTopics[e] /\ documentTopics[e]["Year"] # 0}}

OneEntryPerObservedYear ==
    /\ {topicEvolution[i].year : i \in 1..Len(topicEvolution)} = ObservedYears
    /\ Len(topicEvolution) = Cardinality(ObservedYears)

\* C27: calculateTopicEvolutionByYear returns exactly one entry per observed year,
\* in strictly ascending numeric order of year, for every set of years, years with
\* different numbers of digits included
C27_EntriesInAscendingYearOrder ==
    EvolutionReturned =>
        /\ OneEntryPerObservedYear
        /\ \A i, j \in 1..Len(topicEvolution) :
               i < j => topicEvolution[i].year < topicEvolution[j].year

\* the number of decimal digits of a year
DigitCount(year) == Len(PropertyKey(year))

\* the order is the numeric one among years of the same number of digits, and a year
\* beginning with a smaller digit comes first whatever its length
EntriesInAscendingOrderOfYearText ==
    EvolutionReturned =>
        /\ OneEntryPerObservedYear
        /\ \A i, j \in 1..Len(topicEvolution) :
               (i < j /\ DigitCount(topicEvolution[i].year) = DigitCount(topicEvolution[j].year))
                   => topicEvolution[i].year < topicEvolution[j].year
        /\ \A i, j \in 1..Len(topicEvolution) :
               PropertyKey(topicEvolution[i].year)[1] < PropertyKey(topicEvolution[j].year)[1]
                   => i < j

\* the years 995 and 1955 are both there, 1955 first
EntriesInAscendingOrderOfYearTextWitness ==
    /\ EvolutionReturned
    /\ Len(topicEvolution) = 2
    /\ topicEvolution[1].year = 1955
    /\ topicEvolution[2].year = 995


----------------------------------------------------------------------------
(* C28: merging the expanded wordlist twice, and merging a word given twice *)

\* the wordlist with every pair of topic and word kept at its first place only
RECURSIVE WithoutRepetitionUpTo(_, _)
WithoutRepetitionUpTo(list, n) ==
    IF n = 0 THEN <<>>
    ELSE LET before == WithoutRepetitionUpTo(list, n - 1)
         IN  IF Includes(before, list[n]) THEN before ELSE Append(before, list[n])

WithoutRepetition(list) == WithoutRepetitionUpTo(list, Len(list))

KeywordLists(keywords) == [i \in 1..Len(keywords) |-> keywords[i].keywords]

\* C28: enhanceTopicKeywords is idempotent in the expanded wordlist: merging the same
\* wordlist into the result a second time changes no keyword list, and a wordlist
\* with a word twice for a topic gives the result of the wordlist without the repetition
C28_MergeIdempotent ==
    [][(pc = "enhanceTopicKeywords" /\ pc' = "done") =>
          /\ KeywordLists(enhanceTopicKeywords(enhancedTopicKeywords', expandedWordlist))
                 = KeywordLists(enhancedTopicKeywords')
          /\ enhanceTopicKeywords(enhancedTopicKeywords', expandedWordlist)
                 = enhancedTopicKeywords'
          /\ enhancedTopicKeywords'
                 = enhanceTopicKeywords(topicKeywords, WithoutRepetition(expandedWordlist))]_vars

\* a word given twice for a topic that is there, added once by the merge
C28_Witness ==
    /\ pc = "done"
    /\ Len(expandedWordlist) = 2
    /\ expandedWordlist[1] = expandedWordlist[2]
    /\ Len(WithoutRepetition(expandedWordlist)) = 1
    /\ \E i \in 1..Len(enhancedTopicKeywords) :
           /\ enhancedTopicKeywords[i].id = expandedWordlist[1].topic_id
           /\ Cardinality({k \in 1..Len(enhancedTopicKeywords[i].keywords) :
                              enhancedTopicKeywords[i].keywords[k] = expandedWordlist[1].word}) = 1
           /\ ~Includes(prepareTopicKeywords(nmfTopics, topicLabels)[i].keywords,
                        expandedWordlist[1].word)


----------------------------------------------------------------------------
(* C29: the view and the highlighted topic of TopicEvolution                *)

TopicEvolutionStateWellFormed ==
    /\ view \in {"stream", "line"}
    /\ highlightedTopic \in {Null} \cup {<<key>> : key \in TopicKeySet}
    /\ pc = "rendered" => (ENABLED ClearSelection <=> highlightedTopic # Null)
    /\ \A key \in TopicKeySet :
           ENABLED ClickTopic(key) =>
               ENABLED (/\ ClickTopic(key)
                        /\ highlightedTopic' = IF highlightedTopic = <<key>> THEN Null
                                                ELSE <<key>>)

TopicEvolutionClicks ==
    /\ \A key \in TopicKeySet :
           ClickTopic(key) =>
               highlightedTopic' = IF highlightedTopic = <<key>> THEN Null ELSE <<key>>
    /\ \A viewType \in {"stream", "line"} :
           SetView(viewType) => (view' = viewType /\ highlightedTopic' = highlightedTopic)
    /\ ClearSelection => highlightedTopic' = Null

\* C29: after any sequence of view-button, topic and Clear Selection clicks, view is
\* 'stream' or 'line' and highlightedTopic is null or one of Topic_1..Topic_13; a click
\* on the highlighted topic clears it and a click on another topic highlights that one;
\* a view change leaves highlightedTopic unchanged; Clear Selection is offered exactly
\* when a topic is highlighted
C29_ViewAndHighlightedTopic ==
    /\ []TopicEvolutionStateWellFormed
    /\ [][TopicEvolutionClicks]_vars

\* the line view with the last topic highlighted, after clicks on the view button and
\* on topics
C29_Witness ==
    /\ pc = "rendered"
    /\ data # Null
    /\ view = "line"
    /\ highlightedTopic = <<TopicKey(13)>>
    /\ ENABLED ClearSelection


----------------------------------------------------------------------------
(* C30: the 'resize' listeners of the charts                                *)

AtMostOneListener(chart) ==
    /\ resizeListeners[chart] <= 1
    /\ pc = "unmounted" => resizeListeners[chart] = 0

\* C30: each of TemporalTrends, KeywordsCloud, TopicNetwork and TopicOverview has at
\* most one 'resize' listener on the window while mounted, whatever effects have run
\* again, and none after it is unmounted
C30_AtMostOneResizeListener ==
    \A chart \in ResizingCharts : AtMostOneListener(chart)

\* TopicOverview keeps to one listener and leaves none
TopicOverviewAtMostOneListener == AtMostOneListener("TopicOverview")

\* every run of the effect of the three other charts leaves one more listener, and
\* the unmount leaves them all
ListenersOfOtherChartsStay ==
    [][\A chart \in ResizingCharts \ {"TopicOverview"} :
           /\ resizeListeners'[chart] >= resizeListeners[chart]
           /\ selected'[chart] # selected[chart] =>
                  resizeListeners'[chart] = resizeListeners[chart] + 1]_vars

\* TemporalTrends unmounted with two listeners left, a bar having been clicked once
ListenersOfOtherChartsStayWitness ==
    /\ pc = "unmounted"
    /\ resizeListeners["TemporalTrends"] = 2
    /\ resizeListeners["TopicOverview"] = 0
    /\ selected["TemporalTrends"] # Null

====
